---- MODULE Spec2Model ----
(***************************************************************************)
(* GitPlex: the profile manager (profile.py), workspace Git scoping        *)
(* (workspace.py), the SSH key manager (ssh.py) and the backup / restore / *)
(* clean functions (system.py), as a state machine over the in-memory      *)
(* ProfileManager and the files it reads and writes.                       *)
(*                                                                         *)
(* Python values: Optional[X] is a sequence, << >> for None and <<x>> for  *)
(* a value. A text file is [exists, lines]. A GitCredentials object lives  *)
(* in `heap` under an object identity (a number), so that two profiles can *)
(* hold the same object or two equal copies. A call is an operator from    *)
(* the current state to a record: the state after it, and what it raised.  *)
(*                                                                         *)
(* profile.py imports SSHKey, setup_ssh_keys and test_ssh_connection from  *)
(* ssh.py, which does not define the last two; they are modelled from the  *)
(* specification's SSH key lifecycle. profile.py also passes gpg_key= to   *)
(* setup_workspace, which workspace.py does not take; the call is modelled *)
(* with the parameters workspace.py has.                                   *)
(***************************************************************************)
EXTENDS Integers, Sequences, FiniteSets, TLC

VARIABLES
    profiles,       \* ProfileManager.profiles: dict name -> Profile, in insertion order
    heap,           \* the GitCredentials objects alive, by identity
    credentials,    \* ProfileManager.credentials: dict "email_username" -> GitCredentials
    store,          \* ~/.gitplex/profiles.json
    ssh_files,      \* the files in ~/.ssh: path -> [mode, content]
    gitconfig,      \* ~/.gitconfig
    ws_config,      \* <workspace>/.gitconfig, by resolved workspace directory
    dirs,           \* the workspace directories that exist (resolved)
    unwritable,     \* the directories of dirs the user cannot write in
    backups         \* what ~/.gitplex/backups holds

vars == <<profiles, heap, credentials, store, ssh_files, gitconfig, ws_config,
          dirs, unwritable, backups>>

---------------------------------------------------------------------------
(* Bounds and input values *)

MaxBackups == 2

Names == {"p1", "p2"}
WorkspaceNames == {"p1", "p2", "p3"}
EmailSeq == <<"a@x.io", "b@x.io">>
UsernameSeq == <<"u1">>
Providers == {"github", "gitlab"}
BaseDirs == {"/ws", "/lnk"}
KeyNames == {"work"}
KeyTypes == {"ed25519", "rsa"}

None == << >>
Some(x) == <<x>>

NoCred == 0

NoError == [kind |-> "", message |-> "", profile_name |-> None, current_config |-> None]

\* exceptions.py: GitplexError(message) carries a message and no other field
GitplexError(msg) ==
    [kind |-> "GitplexError", message |-> msg, profile_name |-> None,
     current_config |-> None]

\* an exception that is not a GitplexError (AttributeError, NoSectionError)
NonGitplexError(kind, msg) ==
    [kind |-> kind, message |-> msg, profile_name |-> None, current_config |-> None]

\* exceptions.py: ProfileError(message, profile_name, current_config)
ProfileError(msg, profile_name, current_config) ==
    [kind |-> "ProfileError", message |-> msg, profile_name |-> Some(profile_name),
     current_config |-> Some(current_config)]

\* exceptions.py: SystemConfigError(message)
SystemConfigError(msg) ==
    [kind |-> "SystemConfigError", message |-> msg, profile_name |-> None,
     current_config |-> None]

NoFile == [exists |-> FALSE, lines |-> << >>]
File(lines) == [exists |-> TRUE, lines |-> lines]

---------------------------------------------------------------------------
(* Paths *)

Range(s) == {s[i] : i \in DOMAIN s}

Emails == Range(EmailSeq)
Usernames == Range(UsernameSeq)

\* pathlib: base_dir / profile_name
Join(base, name) == base \o "/" \o name

\* Path.resolve(): /lnk is a symbolic link to /ws
ResolveBase(base) == IF base = "/lnk" THEN "/ws" ELSE base

Resolve(path) ==
    IF \E b \in BaseDirs, n \in WorkspaceNames : Join(b, n) = path
    THEN LET bn == CHOOSE bn \in BaseDirs \X WorkspaceNames : Join(bn[1], bn[2]) = path
         IN Join(ResolveBase(bn[1]), bn[2])
    ELSE path

\* the directory `git init` makes in a workspace
GitDir(workspace) == workspace \o "/.git"

\* Path(f"{ssh_key_path}.pub"); Path.with_suffix(".pub") on a name without a dot
PubPath(private_key) == private_key \o ".pub"

SshConfigPath == "~/.ssh/config"
SshConfigBakPath == "~/.ssh/config.bak"
KnownHostsPath == "~/.ssh/known_hosts"

\* ssh_dir.glob("id_*"): every file of ~/.ssh apart from the three above
IsIdFile(path) == path \notin {SshConfigPath, SshConfigBakPath, KnownHostsPath}

---------------------------------------------------------------------------
(* Sequences as Python dicts in insertion order *)

HasProfile(ps, name) == \E i \in DOMAIN ps : ps[i].name = name

GetProfile(ps, name) == ps[CHOOSE i \in DOMAIN ps : ps[i].name = name]

\* an assignment that always adds an entry
PutProfile_Appends(ps, p) == Append(ps, p)

\* self.profiles[name] = profile: an existing key keeps its place
PutProfile(ps, p) ==
    IF HasProfile(ps, p.name)
    THEN [i \in DOMAIN ps |-> IF ps[i].name = p.name THEN p ELSE ps[i]]
    ELSE Append(ps, p)

\* del self.profiles[name]
DelProfile(ps, name) == SelectSeq(ps, LAMBDA p : p.name # name)

---------------------------------------------------------------------------
(* Credentials and the persisted store *)

\* f"{email}_{username}"
CredKey(email, username) == email \o "_" \o username

\* ProfileManager.find_matching_credentials: self.credentials.get(cred_key)
find_matching_credentials(email, username) ==
    IF CredKey(email, username) \in DOMAIN credentials
    THEN credentials[CredKey(email, username)]
    ELSE NoCred

\* SSHKey.to_dict / SSHKey.from_dict: the two paths, as strings and back
SSHKeyToDict(key) == [private_key |-> key.private_key, public_key |-> key.public_key]

SSHKeyFromDict(d) == [private_key |-> d.private_key, public_key |-> d.public_key]

\* gpg.py: GPGKey.to_dict / GPGKey.from_dict
GPGKeyToDict(key) ==
    [key_id |-> key.key_id, email |-> key.email, name |-> key.name,
     comment |-> key.comment]

GPGKeyFromDict(d) ==
    [key_id |-> d.key_id, email |-> d.email, name |-> d.name, comment |-> d.comment]

\* a serialisation that leaves the active flag out
ToDict_FlagDropped(p, h) ==
    [name |-> p.name,
     credentials |-> [email |-> h[p.credentials].email,
                      username |-> h[p.credentials].username,
                      ssh_key |-> IF h[p.credentials].ssh_key # None
                                  THEN Some(SSHKeyToDict(h[p.credentials].ssh_key[1]))
                                  ELSE None,
                      gpg_key |-> IF h[p.credentials].gpg_key # None
                                  THEN Some(GPGKeyToDict(h[p.credentials].gpg_key[1]))
                                  ELSE None],
     provider |-> p.provider,
     workspace_dir |-> p.workspace_dir,
     is_active |-> FALSE]

\* Profile.to_dict: the credential is written out by value
ToDict(p, h) ==
    [name |-> p.name,
     credentials |-> [email |-> h[p.credentials].email,
                      username |-> h[p.credentials].username,
                      ssh_key |-> IF h[p.credentials].ssh_key # None
                                  THEN Some(SSHKeyToDict(h[p.credentials].ssh_key[1]))
                                  ELSE None,
                      gpg_key |-> IF h[p.credentials].gpg_key # None
                                  THEN Some(GPGKeyToDict(h[p.credentials].gpg_key[1]))
                                  ELSE None],
     provider |-> p.provider,
     workspace_dir |-> p.workspace_dir,
     is_active |-> p.is_active]

\* ProfileManager._save_profiles: the whole map is rewritten
SavedStore(ps, h) == [exists |-> TRUE, data |-> [i \in DOMAIN ps |-> ToDict(ps[i], h)]]

\* every registry key the inputs can form, in a fixed order
AllKeys ==
    [i \in 1..(Len(EmailSeq) * Len(UsernameSeq)) |->
        CredKey(EmailSeq[((i - 1) \div Len(UsernameSeq)) + 1],
                UsernameSeq[((i - 1) % Len(UsernameSeq)) + 1])]

\* the objects a profile or the registry refers to, in order of first reference
References(ps, reg) ==
    [i \in DOMAIN ps |-> ps[i].credentials]
        \o [i \in DOMAIN SelectSeq(AllKeys, LAMBDA k : k \in DOMAIN reg) |->
               reg[SelectSeq(AllKeys, LAMBDA k : k \in DOMAIN reg)[i]]]

FirstRef(refs, c) == CHOOSE i \in DOMAIN refs : refs[i] = c /\ \A j \in 1..(i - 1) : refs[j] # c

\* object identities carry no meaning: the live objects are renumbered 1..n in
\* order of first reference, and the objects nothing refers to are dropped
Renumber(refs, c) ==
    Cardinality({i \in DOMAIN refs : /\ i <= FirstRef(refs, c)
                                     /\ \A j \in 1..(i - 1) : refs[j] # refs[i]})

\* a new object: the first identity not in use
FreshCred == Cardinality(DOMAIN heap) + 1

---------------------------------------------------------------------------
(* Workspace Git scoping (workspace.py) *)

IncludeHeader(workspace) == "[includeIf \"gitdir:" \o workspace \o "/\"]"
IncludePath(workspace) == "    path = " \o workspace \o "/.gitconfig"

\* a check that looks at the end of the file only
ContainsStanza_AtEndOnly(lines, workspace) ==
    /\ Len(lines) >= 2
    /\ lines[Len(lines) - 1] = IncludeHeader(workspace)
    /\ lines[Len(lines)] = IncludePath(workspace)

\* include_config.strip() in current_config
ContainsStanza(lines, workspace) ==
    \E i \in 1..(Len(lines) - 1) :
        lines[i] = IncludeHeader(workspace) /\ lines[i + 1] = IncludePath(workspace)

\* update_global_gitconfig: touch, read, append the stanza unless it is there
update_global_gitconfig(cfg, workspace) ==
    LET current == IF cfg.exists THEN cfg.lines ELSE << >>
    IN IF ContainsStanza(current, workspace)
       THEN File(current)
       ELSE File(current \o <<"", IncludeHeader(workspace), IncludePath(workspace)>>)

\* backup_git_config: copies ~/.gitconfig to backups/gitconfig_backup_<timestamp>
backup_git_config(bk, cfg) ==
    IF cfg.exists
    THEN [bk EXCEPT !.gitconfig_files = @ \cup {cfg}]
    ELSE bk

\* create_git_config: the text written to <workspace>/.gitconfig, as the
\* sections and values that depend on the identity ([core] sshCommand and
\* [init] defaultBranch are written too and read by no operation modelled)
WorkspaceGitConfig(email, username, provider, ssh_key) ==
    [user_email |-> email,
     user_name |-> username,
     provider_section |-> "github",
     provider_user |-> username]

\* setup_workspace on the files of state st: the files after the call, and what
\* it returns or raises. mkdir_ok: whether path.mkdir succeeds when the
\* directory has to be created.
setup_workspace(st, profile_name, email, username, provider, ssh_key, base_dir, mkdir_ok) ==
    LET workspace_dir == Join(base_dir, profile_name)
        bk == backup_git_config(st.backups, st.gitconfig)
        workspace == Resolve(workspace_dir)
    IN IF workspace \notin st.dirs /\ ~mkdir_ok
       THEN [raised |-> GitplexError("Failed to create directory"),
             workspace_dir |-> workspace_dir,
             dirs |-> st.dirs, unwritable |-> st.unwritable,
             ws_config |-> st.ws_config, gitconfig |-> st.gitconfig,
             backups |-> bk]
       ELSE IF workspace \in st.unwritable /\ workspace \notin DOMAIN st.ws_config
       THEN [raised |-> NonGitplexError("PermissionError", workspace),
             workspace_dir |-> workspace_dir,
             dirs |-> st.dirs, unwritable |-> st.unwritable,
             ws_config |-> st.ws_config, gitconfig |-> st.gitconfig,
             backups |-> bk]
       ELSE [raised |-> NoError,
             workspace_dir |-> workspace_dir,
             dirs |-> st.dirs \cup {workspace},
             unwritable |-> st.unwritable,
             ws_config |-> [w \in DOMAIN st.ws_config \cup {workspace} |->
                               IF w = workspace
                               THEN WorkspaceGitConfig(email, username, provider, ssh_key)
                               ELSE st.ws_config[w]],
             gitconfig |-> update_global_gitconfig(st.gitconfig, workspace),
             backups |-> bk]

\* a validation that only looks for the directory
validate_workspace_ExistsOnly(path) == Resolve(path) \in dirs

\* validate_workspace: the directory exists and a test file can be created in it
validate_workspace(path) == Resolve(path) \in dirs /\ Resolve(path) \notin unwritable

---------------------------------------------------------------------------
(* SSH key files *)

KeyFile(mode, content) == [mode |-> mode, content |-> content]

WriteFile(files, path, file) ==
    [q \in DOMAIN files \cup {path} |-> IF q = path THEN file ELSE files[q]]

\* Path.chmod
Chmod(files, path, mode) == [files EXCEPT ![path].mode = mode]

\* Path.unlink(missing_ok=True) on each path
Unlink(files, paths) == [q \in DOMAIN files \ paths |-> files[q]]

SSHKey(private_key, public_key) == [private_key |-> private_key, public_key |-> public_key]

\* setup_ssh_keys: key type by provider (Ed25519 for the providers modelled)
KeyTypeFor(provider) == "ed25519"

\* setup_ssh_keys: the key file name id_<type>_<profile>_<provider>
SshKeyPath(profile_name, provider) ==
    "~/.ssh/id_" \o KeyTypeFor(provider) \o "_" \o profile_name \o "_" \o provider

\* setup_ssh_keys(profile_name, provider, email, force=False): an existing key is
\* reused as it is, otherwise a pair is generated; modes are set to 0600 / 0644
setup_ssh_keys(files, profile_name, provider, email, force) ==
    LET path == SshKeyPath(profile_name, provider)
        present == path \in DOMAIN files /\ PubPath(path) \in DOMAIN files
        written == IF present /\ ~force
                   THEN files
                   ELSE WriteFile(WriteFile(files, path, KeyFile("0600", <<"key">>)),
                                  PubPath(path), KeyFile("0644", <<"key">>))
    IN [key |-> SSHKey(path, PubPath(path)),
        files |-> Chmod(Chmod(written, path, "0600"), PubPath(path), "0644")]

\* SSHKeyManager.validate_key: both files must exist; wrong modes are fixed; then
\* the format and ssh-keygen -l decide (valid)
validate_key(files, key, valid) ==
    IF key.private_key \notin DOMAIN files \/ key.public_key \notin DOMAIN files
    THEN [ok |-> FALSE, files |-> files]
    ELSE [ok |-> valid,
          files |-> Chmod(Chmod(files, key.private_key, "0600"), key.public_key, "0644")]

\* SSHKeyManager.generate_key / get_existing_key / remove_key: the key path
GeneratedKeyPath(name, key_type) == "~/.ssh/id_" \o name \o "_" \o key_type

\* SSHKeyManager.get_existing_key
get_existing_key(files, name, key_type, valid) ==
    LET key == SSHKey(GeneratedKeyPath(name, key_type),
                      PubPath(GeneratedKeyPath(name, key_type)))
        checked == validate_key(files, key, valid)
    IN [key |-> IF checked.ok THEN Some(key) ELSE None, files |-> checked.files]

\* SSHKeyManager.remove_key
remove_key(files, name, key_type) ==
    Unlink(files, {GeneratedKeyPath(name, key_type),
                   PubPath(GeneratedKeyPath(name, key_type))})

\* generate_key, lines 278-308: ssh-keygen writes the pair, then both modes are set
RunKeygen(files, name, key_type, keygen_ok) ==
    LET key_path == GeneratedKeyPath(name, key_type)
        written == WriteFile(WriteFile(files, key_path, KeyFile("0600", <<"key">>)),
                             PubPath(key_path), KeyFile("0644", <<"key">>))
    IN IF ~keygen_ok
       THEN [raised |-> SystemConfigError("Failed to generate SSH key"),
             key |-> None, files |-> files]
       ELSE [raised |-> NoError,
             key |-> Some(SSHKey(key_path, PubPath(key_path))),
             files |-> Chmod(Chmod(written, key_path, "0600"), PubPath(key_path), "0644")]

\* a generate_key that never looks for an existing key
generate_key_AlwaysGenerates(files, name, key_type, force, valid, use_existing, generate_new, keygen_ok) ==
    RunKeygen(files, name, key_type, keygen_ok)

\* SSHKeyManager.generate_key. valid: the outcome of validating an existing key;
\* use_existing, generate_new: the answers to the prompts
generate_key(files, name, key_type, force, valid, use_existing, generate_new, keygen_ok) ==
    LET key_path == GeneratedKeyPath(name, key_type)
        existing == get_existing_key(files, name, key_type, valid)
        cancelled == [raised |-> SystemConfigError("SSH key setup cancelled by user"),
                      key |-> None, files |-> existing.files]
    IN IF ~force /\ (key_path \in DOMAIN files \/ PubPath(key_path) \in DOMAIN files)
       THEN IF existing.key # None /\ use_existing
            THEN [raised |-> NoError, key |-> existing.key, files |-> existing.files]
            ELSE IF generate_new
            THEN RunKeygen(remove_key(existing.files, name, key_type), name, key_type,
                           keygen_ok)
            ELSE cancelled
       ELSE RunKeygen(files, name, key_type, keygen_ok)

---------------------------------------------------------------------------
(* ~/.ssh/config (ssh.py, backup.py) *)

\* the names that can follow Host in a line of ~/.ssh/config
ConfigHosts == {"example.com", "github.com", "gitlab.com", "gitlab.com-work"}

\* the hosts keys are registered for: f"{provider}.com"
ProviderHosts == {p \o ".com" : p \in Providers}

HostLine(host) == "Host " \o host

IdentityFileLine(private_key) == "    IdentityFile " \o private_key

\* str.startswith on two names of ConfigHosts
StartsWith(name, prefix) ==
    name = prefix \/ (prefix = "gitlab.com" /\ name = "gitlab.com-work")

\* the content of ~/.ssh/config, "" when the file is missing
ReadConfig(files) ==
    IF SshConfigPath \in DOMAIN files THEN files[SshConfigPath].content ELSE << >>

\* host_exists: any(line.strip().startswith(f"Host {host}") for line in ...)
host_exists(files, host) ==
    \E i \in DOMAIN ReadConfig(files) : \E h \in ConfigHosts :
        ReadConfig(files)[i] = HostLine(h) /\ StartsWith(h, host)

\* open("a") and write: a missing file is created
AppendConfig(files, block) ==
    WriteFile(files, SshConfigPath,
              KeyFile(IF SshConfigPath \in DOMAIN files
                      THEN files[SshConfigPath].mode ELSE "0644",
                      ReadConfig(files) \o block))

\* SSHConfig._update_config(key, host): a block is appended unless a line that
\* starts with "Host <host>" is there already; the mode is set to 0600
_update_config(files, key, host) ==
    Chmod(IF host_exists(files, host) THEN files
          ELSE AppendConfig(files, <<"", "# Added by GitPlex", HostLine(host),
                                     IdentityFileLine(key.private_key),
                                     "    UseKeychain yes", "    AddKeysToAgent yes",
                                     "    PreferredAuthentications publickey",
                                     "    UpdateHostKeys yes">>),
          SshConfigPath, "0600")

\* backup.py update_ssh_config(key_path, host): the same test, a shorter block
update_ssh_config(files, key_path, host) ==
    Chmod(IF host_exists(files, host) THEN files
          ELSE AppendConfig(files, <<"", "# Added by GitPlex", HostLine(host),
                                     IdentityFileLine(key_path),
                                     "    UseKeychain yes", "    AddKeysToAgent yes">>),
          SshConfigPath, "0600")

---------------------------------------------------------------------------

(* ProfileManager (profile.py) *)

\* the state a call starts from; a call that returns leaves raised at NoError.
\* created: create_profile stored the profile; handed: the key pair
\* create_profile set up or picked up for new credentials
Current ==
    [raised |-> NoError, created |-> FALSE, handed |-> None,
     profiles |-> profiles, heap |-> heap, credentials |-> credentials,
     store |-> store, ssh_files |-> ssh_files, gitconfig |-> gitconfig,
     ws_config |-> ws_config, dirs |-> dirs, unwritable |-> unwritable,
     backups |-> backups]

Raise(state, error) == [state EXCEPT !.raised = error]

\* create_profile, lines 152-157: the name is taken, force is off and the
\* Overwrite? prompt is declined
NameConflict(name, force, overwrite) ==
    HasProfile(profiles, name) /\ ~force /\ ~overwrite

\* a lookup that never finds the registered credentials
ReusedCredentials_NeverFound(email, username, reuse_credentials, reuse_answer) == NoCred

\* create_profile, lines 159-166: the credentials to reuse, or NoCred
ReusedCredentials(email, username, reuse_credentials, reuse_answer) ==
    IF reuse_credentials
       /\ find_matching_credentials(email, username) # NoCred
       /\ reuse_answer
    THEN find_matching_credentials(email, username)
    ELSE NoCred

\* create_profile, lines 262-284: workspace, Profile object, save
FinishCreate(state, cred, name, email, username, provider, base_dir, mkdir_ok) ==
    LET c == state.heap[cred]
        ws == setup_workspace(state, name, email, username, provider,
                              IF c.ssh_key # None THEN Some(c.ssh_key[1].private_key) ELSE None,
                              base_dir, mkdir_ok)
        files == [state EXCEPT !.dirs = ws.dirs, !.ws_config = ws.ws_config,
                               !.gitconfig = ws.gitconfig, !.backups = ws.backups]
        profile == [name |-> name, credentials |-> cred, provider |-> provider,
                    workspace_dir |-> ws.workspace_dir, is_active |-> FALSE]
        ps == PutProfile(state.profiles, profile)
    IN IF ws.raised # NoError
       THEN Raise(files, ws.raised)
       ELSE [files EXCEPT !.profiles = ps,
                          !.store = SavedStore(ps, state.heap),
                          !.created = TRUE]

\* a GPG step that hands back a key whether or not gpg can be run
GpgKeyFor_Always(name, email, username, gpg_installed) ==
    Some([key_id |-> "gpg:" \o email, email |-> email,
          name |-> username, comment |-> Some("GitPlex " \o name)])

\* create_profile, lines 244-253: setup_gpg_key(username, email, "GitPlex <name>")
\* runs gpg; without the program subprocess raises FileNotFoundError, which is
\* caught here and leaves gpg_key at None
GpgKeyFor(name, email, username, gpg_installed) ==
    IF gpg_installed
    THEN Some([key_id |-> "gpg:" \o email, email |-> email,
               name |-> username, comment |-> Some("GitPlex " \o name)])
    ELSE None

\* create_profile, lines 168-260: no credentials to reuse. An existing
\* ~/.ssh/id_<provider> is taken as it is unless a new key is asked for
NewCredentials(state, name, email, username, provider, base_dir, new_key, keygen_ok, gpg_installed, mkdir_ok) ==
    LET ssh_key_path == "~/.ssh/id_" \o provider
        existing == ssh_key_path \in DOMAIN state.ssh_files
        use_existing == existing /\ ~new_key
        made == setup_ssh_keys(state.ssh_files, "id_" \o provider, provider, email, FALSE)
        ssh_key == IF use_existing
                   THEN SSHKey(ssh_key_path, PubPath(ssh_key_path))
                   ELSE made.key
        files == IF use_existing THEN state.ssh_files ELSE made.files
        gpg_key == GpgKeyFor(name, email, username, gpg_installed)
        cred == FreshCred
        object == [email |-> email, username |-> username,
                   ssh_key |-> Some(ssh_key), gpg_key |-> gpg_key]
        registered ==
            [state EXCEPT
                !.handed = Some(ssh_key),
                !.ssh_files = files,
                !.heap = [c \in DOMAIN heap \cup {cred} |->
                             IF c = cred THEN object ELSE heap[c]],
                !.credentials = [k \in DOMAIN credentials \cup {CredKey(email, username)} |->
                                    IF k = CredKey(email, username) THEN cred
                                    ELSE credentials[k]]]
    IN IF existing /\ PubPath(ssh_key_path) \notin DOMAIN state.ssh_files
       THEN Raise(state, [kind |-> "FileNotFoundError", message |-> PubPath(ssh_key_path),
                          profile_name |-> None, current_config |-> None])
       ELSE IF ~use_existing /\ ~keygen_ok
       THEN Raise(state, GitplexError("Failed to generate SSH key"))
       ELSE FinishCreate(registered, cred, name, email, username, provider, base_dir, mkdir_ok)

\* create_profile called when the files on disk are those of `state` (the setup
\* command calls it after its own backup and cleanup steps); the profile map and
\* the credentials registry are the manager's
create_profile_from(state, name, email, username, provider, base_dir, force, reuse_credentials, overwrite, reuse_answer, new_key, keygen_ok, gpg_installed, mkdir_ok) ==
    IF NameConflict(name, force, overwrite)
    THEN Raise(state, GitplexError("Profile " \o name \o " already exists"))
    ELSE IF ReusedCredentials(email, username, reuse_credentials, reuse_answer) # NoCred
    THEN FinishCreate(state,
                      ReusedCredentials(email, username, reuse_credentials, reuse_answer),
                      name, email, username, provider, base_dir, mkdir_ok)
    ELSE NewCredentials(state, name, email, username, provider, base_dir,
                        new_key, keygen_ok, gpg_installed, mkdir_ok)

\* create_profile. overwrite, reuse_answer: the answers to the Overwrite? and
\* reuse prompts; new_key: the connection test on an existing key failed and a
\* new key was asked for; keygen_ok: key generation succeeds
create_profile(name, email, username, provider, base_dir, force, reuse_credentials, overwrite, reuse_answer, new_key, keygen_ok, gpg_installed, mkdir_ok) ==
    create_profile_from(Current, name, email, username, provider, base_dir, force,
                        reuse_credentials, overwrite, reuse_answer, new_key, keygen_ok,
                        gpg_installed, mkdir_ok)

\* a test for another holder of the same GitCredentials object, not of an
\* equal (email, username)
OtherProfileMatches_ByObject(name, email, username) ==
    \E i \in DOMAIN profiles :
        /\ profiles[i].credentials = GetProfile(profiles, name).credentials
        /\ profiles[i].name # name

\* delete_profile, lines 331-336: some other profile has the same email and username
OtherProfileMatches(name, email, username) ==
    \E i \in DOMAIN profiles :
        /\ heap[profiles[i].credentials].email = email
        /\ heap[profiles[i].credentials].username = username
        /\ profiles[i].name # name

\* delete_profile's default for keep_credentials
DefaultKeepCredentials == TRUE

\* delete_profile. rm_workspace: the answer to "Remove workspace directory?"
delete_profile(name, keep_files, keep_credentials, rm_workspace) ==
    IF ~HasProfile(profiles, name)
    THEN Raise(Current, GitplexError("Profile not found: " \o name))
    ELSE
    LET profile == GetProfile(profiles, name)
        cred == heap[profile.credentials]
        cred_key == CredKey(cred.email, cred.username)
        files_branch == ~keep_files /\ cred.ssh_key # None
        remove_keys == /\ files_branch
                       /\ ~keep_credentials
                       /\ ~OtherProfileMatches(name, cred.email, cred.username)
        remove_ws == /\ files_branch
                     /\ rm_workspace
                     /\ Resolve(profile.workspace_dir) \notin unwritable
        ps == DelProfile(profiles, name)
    IN [Current EXCEPT
          !.ssh_files = IF remove_keys
                        THEN Unlink(ssh_files, {cred.ssh_key[1].private_key,
                                                cred.ssh_key[1].public_key})
                        ELSE ssh_files,
          !.credentials = IF remove_keys
                          THEN [k \in DOMAIN credentials \ {cred_key} |-> credentials[k]]
                          ELSE credentials,
          !.dirs = IF remove_ws
                   THEN dirs \ {Resolve(profile.workspace_dir),
                                GitDir(Resolve(profile.workspace_dir))}
                   ELSE dirs,
          !.ws_config = IF remove_ws
                        THEN [w \in DOMAIN ws_config \ {Resolve(profile.workspace_dir)} |->
                                 ws_config[w]]
                        ELSE ws_config,
          !.profiles = ps,
          !.store = SavedStore(ps, heap)]

\* an activation that leaves the other flags as they are
SetActive_OthersKept(ps, name) ==
    [i \in DOMAIN ps |-> [ps[i] EXCEPT !.is_active = @ \/ (ps[i].name = name)]]

\* activate_profile, lines 376-381: every flag off, then the named one on
SetActive(ps, name) ==
    [i \in DOMAIN ps |-> [ps[i] EXCEPT !.is_active = (ps[i].name = name)]]

\* ProfileManager.get_profile: the profile, or GitplexError
get_profile(name) ==
    IF ~HasProfile(profiles, name)
    THEN [raised |-> GitplexError("Profile not found: " \o name), profile |-> None]
    ELSE [raised |-> NoError, profile |-> Some(GetProfile(profiles, name))]

\* an activation that clears the flags before it looks the name up
activate_profile_FlagsFirst(name) ==
    LET ps == SetActive(profiles, name)
        flagged == [Current EXCEPT !.profiles = ps]
    IN IF ~HasProfile(profiles, name)
       THEN Raise(flagged, GitplexError("Profile not found: " \o name))
       ELSE IF ~validate_workspace(GetProfile(profiles, name).workspace_dir)
       THEN Raise(flagged, GitplexError("Invalid workspace directory"))
       ELSE [flagged EXCEPT !.store = SavedStore(ps, heap)]

\* activate_profile: the flags are set before the workspace is validated,
\* the store is saved after
activate_profile(name) ==
    IF ~HasProfile(profiles, name)
    THEN Raise(Current, GitplexError("Profile not found: " \o name))
    ELSE
    LET ps == SetActive(profiles, name)
        flagged == [Current EXCEPT !.profiles = ps]
    IN IF ~validate_workspace(GetProfile(profiles, name).workspace_dir)
       THEN Raise(flagged, GitplexError("Invalid workspace directory"))
       ELSE [flagged EXCEPT !.store = SavedStore(ps, heap)]

\* Profile.from_dict: the GitCredentials object built for one stored profile
CredentialsFromDict(d) ==
    [email |-> d.credentials.email,
     username |-> d.credentials.username,
     ssh_key |-> IF d.credentials.ssh_key # None
                 THEN Some(SSHKeyFromDict(d.credentials.ssh_key[1])) ELSE None,
     gpg_key |-> IF d.credentials.gpg_key # None
                 THEN Some(GPGKeyFromDict(d.credentials.gpg_key[1])) ELSE None]

\* Profile.from_dict: the Profile built for one stored profile, holding the
\* object cred
ProfileFromDict(d, cred) ==
    [name |-> d.name, credentials |-> cred, provider |-> d.provider,
     workspace_dir |-> d.workspace_dir, is_active |-> d.is_active]

\* ProfileManager.__init__ / _load_profiles: Profile.from_dict builds one
\* GitCredentials object per profile; the registry keeps, for each key, the
\* object of the last profile that has it
load_profiles ==
    IF ~store.exists
    THEN [Current EXCEPT !.profiles = << >>, !.heap = << >>, !.credentials = << >>]
    ELSE
    LET data == store.data
        keyOf(i) == CredKey(data[i].credentials.email, data[i].credentials.username)
    IN [Current EXCEPT
          !.profiles = [i \in DOMAIN data |-> ProfileFromDict(data[i], i)],
          !.heap = [i \in DOMAIN data |-> CredentialsFromDict(data[i])],
          !.credentials = [k \in {keyOf(i) : i \in DOMAIN data} |->
                              CHOOSE i \in DOMAIN data :
                                  /\ keyOf(i) = k
                                  /\ \A j \in DOMAIN data : keyOf(j) = k => j <= i]]

---------------------------------------------------------------------------
(* The update command (cli.py) *)

\* update(name, email, username, provider, remove_provider). email and username
\* are Optional; provider and remove_provider say whether the option was given.
\* Profile has no `providers` attribute, so either of the two options ends the
\* command with AttributeError, after the credentials were changed and before
\* the store is saved.
update(name, email, username, provider, remove_provider) ==
    IF email = None /\ username = None /\ ~provider /\ ~remove_provider
    THEN Current
    ELSE IF ~HasProfile(profiles, name)
    THEN Raise(Current, GitplexError("Profile not found: " \o name))
    ELSE
    LET profile == GetProfile(profiles, name)
        old == heap[profile.credentials]
        new_email == IF email # None THEN email[1] ELSE old.email
        new_username == IF username # None THEN username[1] ELSE old.username
        existing_creds == find_matching_credentials(new_email, new_username)
        changed ==
            IF email = None /\ username = None
            THEN Current
            ELSE IF existing_creds # NoCred
            THEN [Current EXCEPT
                    !.profiles = PutProfile(profiles,
                                            [profile EXCEPT !.credentials = existing_creds])]
            ELSE [Current EXCEPT
                    !.heap = [heap EXCEPT ![profile.credentials] =
                                 [old EXCEPT !.email = new_email,
                                             !.username = new_username]]]
    IN IF provider \/ remove_provider
       THEN Raise(changed, NonGitplexError("AttributeError", "providers"))
       ELSE [changed EXCEPT !.store = SavedStore(changed.profiles, changed.heap)]

---------------------------------------------------------------------------

(* Profile validation (profile.py, workspace.py) *)

\* git.Repo(workspace): the directory itself has to be a repository
IsRepo(d, workspace) == GitDir(Resolve(workspace)) \in d

\* SSHKey.exists(): both key files are there
SSHKeyExists(files, key) ==
    key.private_key \in DOMAIN files /\ key.public_key \in DOMAIN files

\* get_workspace_git_config(workspace): GitplexError when <workspace>/.gitconfig
\* is missing or the workspace is not a Git repository; otherwise the values
\* the repository's config reader gives, which has the workspace .gitconfig
\* through the includeIf stanza of ~/.gitconfig and raises on a missing section
get_workspace_git_config(workspace) ==
    LET w == Resolve(workspace)
    IN IF w \notin DOMAIN ws_config
       THEN [raised |-> GitplexError("Git config not found"), config |-> None]
       ELSE IF ~IsRepo(dirs, workspace)
       THEN [raised |-> GitplexError("Failed to read Git config"), config |-> None]
       ELSE IF ~ContainsStanza(gitconfig.lines, w)
       THEN [raised |-> NonGitplexError("NoSectionError", "user"), config |-> None]
       ELSE [raised |-> NoError,
             config |-> Some([user_name |-> ws_config[w].user_name,
                              user_email |-> ws_config[w].user_email,
                              github_user |-> ws_config[w].provider_user])]

\* validate_profile, lines 431-443: the Git config check
ConfigMatches(name) ==
    LET profile == GetProfile(profiles, name)
        cred == heap[profile.credentials]
        r == get_workspace_git_config(profile.workspace_dir)
    IN IF r.raised.kind = "GitplexError"
       THEN [raised |-> NoError, value |-> FALSE]
       ELSE IF r.raised # NoError
       THEN [raised |-> r.raised, value |-> FALSE]
       ELSE [raised |-> NoError,
             value |-> ~(\/ r.config[1].user_email # cred.email
                         \/ r.config[1].user_name # cred.username
                         \/ r.config[1].github_user # cred.username)]

\* validate_profile(name): what it returns, or the exception that leaves it
validate_profile(name) ==
    IF ~HasProfile(profiles, name)
    THEN [raised |-> NoError, value |-> FALSE]
    ELSE
    LET profile == GetProfile(profiles, name)
        cred == heap[profile.credentials]
    IN IF cred.ssh_key = None
       THEN [raised |-> NonGitplexError("AttributeError", "exists"), value |-> FALSE]
       ELSE IF ~SSHKeyExists(ssh_files, cred.ssh_key[1])
       THEN [raised |-> NoError, value |-> FALSE]
       ELSE IF ~validate_workspace(profile.workspace_dir)
       THEN [raised |-> NoError, value |-> FALSE]
       ELSE ConfigMatches(name)

---------------------------------------------------------------------------

(* Backup, restore and clean (system.py) *)

EmptyBackups == [gitconfig_files |-> {}, dirs |-> {}]

\* every private key path an operation of the model can produce
PrivateKeyPaths ==
    {"~/.ssh/id_" \o p : p \in Providers}
        \cup {SshKeyPath("id_" \o p, p) : p \in Providers}
        \cup {GeneratedKeyPath(n, t) : n \in KeyNames, t \in KeyTypes}

\* key_file.name.endswith(".pub")
EndsWithPub(path) == \E q \in PrivateKeyPaths : path = PubPath(q)

\* backup_configs: ~/.gitconfig, ~/.ssh/config, ~/.ssh/id_* and known_hosts are
\* copied (shutil.copy2 keeps the mode) to backups/backup_<timestamp>
backup_configs ==
    [gitconfig |-> gitconfig,
     ssh |-> [q \in {p \in DOMAIN ssh_files : p # SshConfigBakPath} |-> ssh_files[q]]]

\* a restore that copies back only the files that are missing
restore_configs_OnlyMissing(backup) ==
    [Current EXCEPT
        !.gitconfig = IF backup.gitconfig.exists /\ ~gitconfig.exists
                      THEN backup.gitconfig ELSE gitconfig,
        !.ssh_files = [q \in DOMAIN ssh_files \cup DOMAIN backup.ssh |->
                          IF q \in DOMAIN ssh_files THEN ssh_files[q]
                          ELSE backup.ssh[q]]]

\* restore_configs(backup_path): what the backup holds is copied back, and the
\* files restored from id_* that do not end in .pub are set to 0600
restore_configs(backup) ==
    [Current EXCEPT
        !.gitconfig = IF backup.gitconfig.exists THEN backup.gitconfig ELSE gitconfig,
        !.ssh_files = [q \in DOMAIN ssh_files \cup DOMAIN backup.ssh |->
                          IF q \notin DOMAIN backup.ssh THEN ssh_files[q]
                          ELSE IF IsIdFile(q) /\ ~EndsWithPub(q)
                          THEN [backup.ssh[q] EXCEPT !.mode = "0600"]
                          ELSE backup.ssh[q]]]

GitconfigPath == "~/.gitconfig"
GitplexDir == "~/.gitplex"

\* gitplex_dir.exists(): the directory holds profiles.json and backups/
GitplexDirExists == store.exists \/ backups # EmptyBackups

\* the lines of `gpg --list-secret-keys` as clean_existing_configs reads them:
\* gitplex is "gitplex" in line.lower(), key_id is line.split("/")[1].split(" ")[0],
\* None when the line has no "/" (IndexError)
GpgLine(gitplex, key_id) == [gitplex |-> gitplex, key_id |-> key_id]

\* no secret key (or no gpg); a key of GitPlex's as gpg lists it, the key id in
\* the sec line and "GitPlex" in the uid line; a listing with both in one line
GpgListings ==
    {<< >>,
     <<GpgLine(FALSE, Some("K1")), GpgLine(TRUE, None)>>,
     <<GpgLine(TRUE, Some("K1"))>>}

\* the removals of clean_existing_configs that can fail: unlink of ~/.gitconfig,
\* copy2 to config.bak, unlink of ~/.ssh/config, unlink of an id_* file, gpg
\* --delete-secret-and-public-key of a key id, rmtree of ~/.gitplex
CleanArtifacts ==
    {GitconfigPath, SshConfigBakPath, SshConfigPath, "~/.ssh/id_github",
     PubPath("~/.ssh/id_github"), "K1", GitplexDir}

\* a clean that gives up at the first removal that fails
clean_existing_configs_StopsAtFailure(failing) ==
    IF gitconfig.exists /\ GitconfigPath \in failing THEN Current
    ELSE IF SshConfigPath \in DOMAIN ssh_files
            /\ {SshConfigBakPath, SshConfigPath} \cap failing # {}
    THEN [Current EXCEPT !.gitconfig = NoFile]
    ELSE IF \E q \in DOMAIN ssh_files : IsIdFile(q) /\ q \in failing
    THEN [Current EXCEPT
             !.gitconfig = NoFile,
             !.ssh_files = [q \in (DOMAIN ssh_files \ {SshConfigPath})
                                      \cup (IF SshConfigPath \in DOMAIN ssh_files
                                            THEN {SshConfigBakPath} ELSE {}) |->
                               IF q = SshConfigBakPath /\ SshConfigPath \in DOMAIN ssh_files
                               THEN ssh_files[SshConfigPath]
                               ELSE ssh_files[q]]]
    ELSE [Current EXCEPT
             !.gitconfig = NoFile,
             !.ssh_files = [q \in {p \in DOMAIN ssh_files \cup
                                         (IF SshConfigPath \in DOMAIN ssh_files
                                          THEN {SshConfigBakPath} ELSE {}) :
                                      ~IsIdFile(p) /\ p # SshConfigPath} |->
                               IF q = SshConfigBakPath /\ SshConfigPath \in DOMAIN ssh_files
                               THEN ssh_files[SshConfigPath]
                               ELSE ssh_files[q]],
             !.store = IF GitplexDir \in failing THEN store
                       ELSE [exists |-> FALSE, data |-> << >>],
             !.backups = IF GitplexDir \in failing THEN backups ELSE EmptyBackups]

\* clean_existing_configs(): ~/.gitconfig, ~/.ssh/config (after a copy to
\* config.bak), every ~/.ssh/id_* and the whole ~/.gitplex directory are
\* removed, each in a try of its own. failing: the removals that raise OSError
clean_existing_configs(failing) ==
    LET copied == SshConfigPath \in DOMAIN ssh_files /\ SshConfigBakPath \notin failing
        kept == {p \in DOMAIN ssh_files :
                    IF p = SshConfigPath THEN ~copied \/ p \in failing
                    ELSE IF IsIdFile(p) THEN p \in failing
                    ELSE TRUE}
    IN [Current EXCEPT
           !.gitconfig = IF GitconfigPath \in failing THEN gitconfig ELSE NoFile,
           !.ssh_files = [q \in kept \cup (IF copied THEN {SshConfigBakPath} ELSE {}) |->
                             IF q = SshConfigBakPath /\ copied
                             THEN ssh_files[SshConfigPath]
                             ELSE ssh_files[q]],
           !.store = IF GitplexDir \in failing THEN store
                     ELSE [exists |-> FALSE, data |-> << >>],
           !.backups = IF GitplexDir \in failing THEN backups ELSE EmptyBackups]

\* the artifacts named by the print_error calls of clean_existing_configs; an
\* id_* file is named when its own unlink or the unlink of its .pub fails, a
\* gpg line without a key id as "GPG key"
clean_errors(failing, gpg_lines) ==
    {a \in {GitconfigPath} : gitconfig.exists /\ a \in failing}
        \cup {a \in {SshConfigPath} :
                 a \in DOMAIN ssh_files /\ {SshConfigBakPath, a} \cap failing # {}}
        \cup {a \in DOMAIN ssh_files :
                 /\ IsIdFile(a)
                 /\ \/ a \in failing
                    \/ PubPath(a) \in DOMAIN ssh_files /\ PubPath(a) \in failing}
        \cup {"GPG key" : i \in {j \in DOMAIN gpg_lines :
                                    gpg_lines[j].gitplex /\ gpg_lines[j].key_id = None}}
        \cup {gpg_lines[i].key_id[1] :
                 i \in {j \in DOMAIN gpg_lines :
                           /\ gpg_lines[j].gitplex /\ gpg_lines[j].key_id # None
                           /\ gpg_lines[j].key_id[1] \in failing}}
        \cup {a \in {GitplexDir} : GitplexDirExists /\ a \in failing}

\* the GPG key ids appended to cleaned_items
cleaned_gpg_keys(failing, gpg_lines) ==
    {gpg_lines[i].key_id[1] :
        i \in {j \in DOMAIN gpg_lines :
                  /\ gpg_lines[j].gitplex /\ gpg_lines[j].key_id # None
                  /\ gpg_lines[j].key_id[1] \notin failing}}

---------------------------------------------------------------------------
(* The setup command and clean_provider_configs (cli.py, system.py) *)

\* ssh_dir.glob(f"id_*{provider}*"): the files of ~/.ssh whose name has the
\* provider in it, among the names an operation of the model can produce
ProviderKeyFiles(provider) ==
    {"~/.ssh/id_" \o provider, PubPath("~/.ssh/id_" \o provider),
     SshKeyPath("id_" \o provider, provider),
     PubPath(SshKeyPath("id_" \o provider, provider))}

\* line.strip().startswith(f"Host {provider}"), over the lines of ConfigHosts
IsProviderHostLine(line, provider) ==
    \E h \in ConfigHosts :
        /\ line = HostLine(h)
        /\ h \in {provider \o ".com", provider \o ".com-work"}

\* line.strip() and not line.startswith(" ") and not line.startswith("\t"): the
\* lines of the model that are not empty and not indented
EndsBlock(line) ==
    \/ line = "# Added by GitPlex"
    \/ \E h \in ConfigHosts : line = HostLine(h)

\* the loop of lines 598-607 on the first n lines: <<lines kept, skip_block>>
RECURSIVE FilterConfig(_, _, _)
FilterConfig(lines, n, provider) ==
    IF n = 0 THEN <<<< >>, FALSE>>
    ELSE LET before == FilterConfig(lines, n - 1, provider)
             line == lines[n]
         IN IF IsProviderHostLine(line, provider) THEN <<before[1], TRUE>>
            ELSE IF EndsBlock(line) THEN <<Append(before[1], line), FALSE>>
            ELSE IF before[2] THEN before
            ELSE <<Append(before[1], line), FALSE>>

\* clean_provider_configs(provider, profile_name): the id_*<provider>* files are
\* unlinked and the Host blocks of the provider are cut out of ~/.ssh/config;
\* ~/.gitplex/profiles/<profile_name> and the Git section profile.<profile_name>
\* are never written by the program, so their removal changes nothing
clean_provider_configs(files, provider) ==
    LET kept == Unlink(files, ProviderKeyFiles(provider))
    IN IF SshConfigPath \notin DOMAIN kept THEN kept
       ELSE [kept EXCEPT ![SshConfigPath].content =
                FilterConfig(@, Len(@), provider)[1]]

\* a cleanup step that removes first and makes the backup afterwards
clean_setup_step_CleansFirst(state, provider, no_backup, backup_ok) ==
    LET cleaned == [state EXCEPT !.ssh_files = clean_provider_configs(@, provider)]
    IN IF no_backup THEN cleaned
       ELSE IF ~backup_ok
       THEN Raise(cleaned, SystemConfigError("Failed to backup configurations"))
       ELSE [cleaned EXCEPT !.backups.dirs = @ \cup
                {[gitconfig |-> cleaned.gitconfig,
                  ssh |-> [q \in {p \in DOMAIN cleaned.ssh_files : p # SshConfigBakPath} |->
                              cleaned.ssh_files[q]]]}]

\* setup, lines 495-509: backup_configs() unless --no-backup, then
\* clean_provider_configs(provider, name). backup_configs raises
\* SystemConfigError when a copy fails (backup_ok is FALSE); that is not a
\* BackupError, so the except clause of line 505 does not catch it and the
\* cleanup is not reached
clean_setup_step(state, provider, no_backup, backup_ok) ==
    LET saved == IF no_backup THEN state
                 ELSE [state EXCEPT !.backups.dirs = @ \cup {backup_configs}]
    IN IF ~no_backup /\ ~backup_ok
       THEN Raise(state, SystemConfigError("Failed to backup configurations"))
       ELSE [saved EXCEPT !.ssh_files = clean_provider_configs(@, provider)]

\* the setup command with --clean-setup (the scan of lines 188-445 is skipped).
\* proceed is the answer to "Do you want to proceed with the profile cleanup?";
\* --directory is base_dir/name. A SystemConfigError leaves the command as a
\* GitplexError with the same message (lines 618-619)
setup(name, email, username, provider, base_dir, force, non_interactive, no_backup, reuse_credentials, proceed, backup_ok, overwrite, reuse_answer, new_key, keygen_ok, gpg_installed, mkdir_ok) ==
    IF non_interactive
    THEN Raise(Current, GitplexError("Clean setup cannot be used in non-interactive mode"))
    ELSE IF ~proceed
    THEN Current
    ELSE LET cleaned == clean_setup_step(Current, provider, no_backup, backup_ok)
         IN IF cleaned.raised # NoError
            THEN Raise(cleaned, GitplexError(cleaned.raised.message))
            ELSE create_profile_from(cleaned, name, email, username, provider, base_dir,
                                     force, reuse_credentials, overwrite, reuse_answer,
                                     new_key, keygen_ok, gpg_installed, mkdir_ok)

---------------------------------------------------------------------------

(* The restore command (cli.py, backup.py) *)

\* the entries of a directory backups/backup_<timestamp> as backup_configs of
\* system.py leaves it, each with its lines: the copy `gitconfig` when there was
\* a ~/.gitconfig, and the directory `ssh` that holds the copies of ~/.ssh
BackupDir(backup) ==
    [n \in (IF backup.gitconfig.exists THEN {"gitconfig"} ELSE {}) \cup {"ssh"} |->
        IF n = "gitconfig" THEN backup.gitconfig.lines ELSE << >>]

\* restore_git_config(backup_path): the archive gitconfig_backup.tar of the
\* directory is unpacked into the home directory (its member is .gitconfig)
restore_git_config(dir) ==
    IF "gitconfig_backup.tar" \notin DOMAIN dir
    THEN Raise(Current, GitplexError("Failed to restore Git configuration: "
                                        \o "Git configuration backup not found"))
    ELSE [Current EXCEPT !.gitconfig = File(dir["gitconfig_backup.tar"])]

\* restore_ssh_config(backup_path): the archive ssh_backup.tar is unpacked into
\* the home directory; its member is named config, so it lands in ~/config and
\* ~/.ssh/config stays as it is
restore_ssh_config(dir) ==
    IF "ssh_backup.tar" \notin DOMAIN dir
    THEN Raise(Current, GitplexError("Failed to restore SSH configuration: "
                                        \o "SSH configuration backup not found"))
    ELSE Current

\* gitplex restore <backup_path> --type git|ssh
restore(backup, type) ==
    IF type = "git" THEN restore_git_config(BackupDir(backup))
    ELSE restore_ssh_config(BackupDir(backup))

---------------------------------------------------------------------------

(* Actions *)

\* the state after a call
Apply(r) ==
    \E refs \in {References(r.profiles, r.credentials)} :
    /\ profiles' = [i \in DOMAIN r.profiles |->
                       [r.profiles[i] EXCEPT !.credentials = Renumber(refs, @)]]
    /\ credentials' = [k \in DOMAIN r.credentials |-> Renumber(refs, r.credentials[k])]
    /\ heap' = [n \in 1..Cardinality(Range(refs)) |->
                   r.heap[CHOOSE c \in Range(refs) : Renumber(refs, c) = n]]
    /\ store' = r.store
    /\ ssh_files' = r.ssh_files
    /\ gitconfig' = r.gitconfig
    /\ ws_config' = r.ws_config
    /\ dirs' = r.dirs
    /\ unwritable' = r.unwritable
    /\ backups' = r.backups

\* a prompt has an answer only where create_profile asks it
OverwriteAnswers(name, force) ==
    IF HasProfile(profiles, name) /\ ~force THEN BOOLEAN ELSE {FALSE}

ReuseAnswers(email, username, reuse_credentials) ==
    IF reuse_credentials /\ find_matching_credentials(email, username) # NoCred
    THEN BOOLEAN ELSE {FALSE}

NewKeyAnswers(provider) ==
    IF ("~/.ssh/id_" \o provider) \in DOMAIN ssh_files THEN BOOLEAN ELSE {FALSE}

CreateProfile(name, email, username, provider, base_dir, force, reuse_credentials, keygen_ok, gpg_installed, mkdir_ok) ==
    \E overwrite \in OverwriteAnswers(name, force),
       reuse_answer \in ReuseAnswers(email, username, reuse_credentials),
       new_key \in NewKeyAnswers(provider) :
        \E r \in {create_profile(name, email, username, provider, base_dir, force,
                                 reuse_credentials, overwrite, reuse_answer, new_key,
                                 keygen_ok, gpg_installed, mkdir_ok)} : Apply(r)

DeleteProfile(name, keep_files, keep_credentials, rm_workspace) ==
    \E r \in {delete_profile(name, keep_files, keep_credentials, rm_workspace)} : Apply(r)

ActivateProfile(name) ==
    \E r \in {activate_profile(name)} : Apply(r)

NewProfileManager ==
    \E r \in {load_profiles} : Apply(r)

\* the user removes a workspace directory outside the program
UserRemovesWorkspace(workspace) ==
    /\ workspace \in dirs
    /\ dirs' = dirs \ {workspace, GitDir(workspace)}
    /\ unwritable' = unwritable \ {workspace}
    /\ ws_config' = [w \in DOMAIN ws_config \ {workspace} |-> ws_config[w]]
    /\ UNCHANGED <<profiles, heap, credentials, store, ssh_files, gitconfig, backups>>

\* setup_workspace called on its own
SetupWorkspace(profile_name, email, username, provider, ssh_key, base_dir, mkdir_ok) ==
    \E ws \in {setup_workspace(Current, profile_name, email, username, provider,
                               ssh_key, base_dir, mkdir_ok)} :
        /\ dirs' = ws.dirs
        /\ unwritable' = ws.unwritable
        /\ ws_config' = ws.ws_config
        /\ gitconfig' = ws.gitconfig
        /\ backups' = ws.backups
        /\ UNCHANGED <<profiles, heap, credentials, store, ssh_files>>

GenerateKey(name, key_type, force, valid, use_existing, generate_new, keygen_ok) ==
    /\ ssh_files' = generate_key(ssh_files, name, key_type, force, valid, use_existing,
                                 generate_new, keygen_ok).files
    /\ UNCHANGED <<profiles, heap, credentials, store, gitconfig, ws_config, dirs,
                   unwritable, backups>>

BackupConfigs ==
    /\ Cardinality(backups.dirs) < MaxBackups
    /\ backups' = [backups EXCEPT !.dirs = @ \cup {backup_configs}]
    /\ UNCHANGED <<profiles, heap, credentials, store, ssh_files, gitconfig, ws_config,
                   dirs, unwritable>>

RestoreConfigs(backup) ==
    \E r \in {restore_configs(backup)} : Apply(r)

CleanExistingConfigs(failing) ==
    \E r \in {clean_existing_configs(failing)} : Apply(r)

\* gitplex setup --clean-setup; after the cleanup no ~/.ssh/id_<provider> is
\* left for create_profile to ask about
Setup(name, email, username, provider, base_dir, force, non_interactive, no_backup, reuse_credentials, proceed, backup_ok, keygen_ok, gpg_installed, mkdir_ok) ==
    /\ Cardinality(backups.dirs) < MaxBackups
    /\ \E overwrite \in OverwriteAnswers(name, force),
          reuse_answer \in ReuseAnswers(email, username, reuse_credentials) :
        \E r \in {setup(name, email, username, provider, base_dir, force, non_interactive,
                        no_backup, reuse_credentials, proceed, backup_ok, overwrite,
                        reuse_answer, FALSE, keygen_ok, gpg_installed, mkdir_ok)} : Apply(r)

---------------------------------------------------------------------------
\* the user runs `git init` in a workspace directory
UserGitInit(workspace) ==
    /\ workspace \in dirs
    /\ dirs' = dirs \cup {GitDir(workspace)}
    /\ UNCHANGED <<profiles, heap, credentials, store, ssh_files, gitconfig, ws_config,
                   backups, unwritable>>

\* the user edits user.email in a workspace .gitconfig by hand
UserEditsEmail(workspace, email) ==
    /\ workspace \in DOMAIN ws_config
    /\ ws_config' = [ws_config EXCEPT ![workspace].user_email = email]
    /\ UNCHANGED <<profiles, heap, credentials, store, ssh_files, gitconfig, dirs,
                   backups, unwritable>>

\* the user edits user.name in a workspace .gitconfig by hand
UserEditsName(workspace, username) ==
    /\ workspace \in DOMAIN ws_config
    /\ ws_config' = [ws_config EXCEPT ![workspace].user_name = username]
    /\ UNCHANGED <<profiles, heap, credentials, store, ssh_files, gitconfig, dirs,
                   backups, unwritable>>

---------------------------------------------------------------------------

UpdateProfile(name, email, username, provider, remove_provider) ==
    \E r \in {update(name, email, username, provider, remove_provider)} : Apply(r)

---------------------------------------------------------------------------

\* the user takes away, or gives back, the write permission on a workspace
UserChmodsWorkspace(workspace, writable) ==
    /\ workspace \in dirs
    /\ unwritable' = IF writable THEN unwritable \ {workspace}
                     ELSE unwritable \cup {workspace}
    /\ UNCHANGED <<profiles, heap, credentials, store, ssh_files, gitconfig, ws_config,
                   dirs, backups>>

---------------------------------------------------------------------------

\* SSHConfig.setup, lines 105-108: a validated key is registered for a host
UpdateConfig(private_key, host) ==
    /\ private_key \in DOMAIN ssh_files
    /\ PubPath(private_key) \in DOMAIN ssh_files
    /\ ssh_files' = _update_config(ssh_files, SSHKey(private_key, PubPath(private_key)),
                                   host)
    /\ UNCHANGED <<profiles, heap, credentials, store, gitconfig, ws_config, dirs,
                   unwritable, backups>>

UpdateSshConfig(key_path, host) ==
    /\ ssh_files' = update_ssh_config(ssh_files, key_path, host)
    /\ UNCHANGED <<profiles, heap, credentials, store, gitconfig, ws_config, dirs,
                   unwritable, backups>>

\* the user deletes ~/.gitconfig or a file of ~/.ssh
UserDeletesFile(path) ==
    /\ path = "~/.gitconfig" \/ path \in DOMAIN ssh_files
    /\ gitconfig' = IF path = "~/.gitconfig" THEN NoFile ELSE gitconfig
    /\ ssh_files' = Unlink(ssh_files, {path})
    /\ UNCHANGED <<profiles, heap, credentials, store, ws_config, dirs, unwritable,
                   backups>>

---------------------------------------------------------------------------

(* Initial states and specifications *)

ProfileProviders == {"github"}
ProfileBaseDirs == {"/lnk"}
ReuseEmails == {"a@x.io"}

\* a home directory GitPlex has not been used in
Init ==
    /\ profiles = << >>
    /\ heap = << >>
    /\ credentials = << >>
    /\ store = [exists |-> FALSE, data |-> << >>]
    /\ ssh_files = << >>
    /\ gitconfig = NoFile
    /\ ws_config = << >>
    /\ dirs = {}
    /\ unwritable = {}
    /\ backups = EmptyBackups

\* a home directory with a ~/.gitconfig, a ~/.ssh/config and a key pair
\* ~/.ssh/id_github of the user's own, its modes as the user left them
InitSystem ==
    /\ profiles = << >>
    /\ heap = << >>
    /\ credentials = << >>
    /\ store = [exists |-> FALSE, data |-> << >>]
    /\ ssh_files = [q \in {"~/.ssh/id_github", "~/.ssh/id_github.pub", SshConfigPath} |->
                       IF q = "~/.ssh/id_github" THEN KeyFile("0644", <<"key">>)
                       ELSE IF q = SshConfigPath THEN KeyFile("0600", <<"Host example.com">>)
                       ELSE KeyFile("0664", <<"key">>)]
    /\ gitconfig = File(<<"[alias]">>)
    /\ ws_config = << >>
    /\ dirs = {}
    /\ unwritable = {}
    /\ backups = EmptyBackups

\* a home directory with a key pair ~/.ssh/id_<provider> for each provider
InitReuse ==
    /\ profiles = << >>
    /\ heap = << >>
    /\ credentials = << >>
    /\ store = [exists |-> FALSE, data |-> << >>]
    /\ ssh_files = [q \in {"~/.ssh/id_" \o p : p \in Providers}
                           \cup {PubPath("~/.ssh/id_" \o p) : p \in Providers} |->
                       IF EndsWithPub(q) THEN KeyFile("0644", <<"key">>)
                       ELSE KeyFile("0600", <<"key">>)]
    /\ gitconfig = NoFile
    /\ ws_config = << >>
    /\ dirs = {}
    /\ unwritable = {}
    /\ backups = EmptyBackups

\* the profile lifecycle, for one provider
Next ==
    \/ \E name \in Names, email \in Emails, username \in Usernames,
          provider \in ProfileProviders, base_dir \in ProfileBaseDirs,
          force \in BOOLEAN, reuse_credentials \in BOOLEAN,
          keygen_ok \in BOOLEAN, mkdir_ok \in BOOLEAN :
            CreateProfile(name, email, username, provider, base_dir, force,
                          reuse_credentials, keygen_ok, FALSE, mkdir_ok)
    \/ \E name \in Names, keep_files \in BOOLEAN, keep_credentials \in BOOLEAN,
          rm_workspace \in BOOLEAN :
            DeleteProfile(name, keep_files, keep_credentials, rm_workspace)
    \/ \E name \in Names : ActivateProfile(name)
    \/ NewProfileManager
    \/ \E workspace \in dirs : UserRemovesWorkspace(workspace)

Spec == Init /\ [][Next]_vars

\* the profile lifecycle for one identity and several providers, every
\* create_profile call made with reuse_credentials=True
NextReuse ==
    \/ \E name \in Names, email \in ReuseEmails, username \in Usernames,
          provider \in Providers, base_dir \in ProfileBaseDirs, force \in BOOLEAN :
            CreateProfile(name, email, username, provider, base_dir, force,
                          TRUE, TRUE, FALSE, TRUE)
    \/ \E name \in Names, keep_files \in BOOLEAN, keep_credentials \in BOOLEAN,
          rm_workspace \in BOOLEAN :
            DeleteProfile(name, keep_files, keep_credentials, rm_workspace)
    \/ NewProfileManager

SpecReuse == InitReuse /\ [][NextReuse]_vars

\* setup_workspace alone
NextWorkspace ==
    \E profile_name \in WorkspaceNames, email \in Emails, username \in Usernames,
       provider \in Providers, base_dir \in BaseDirs, mkdir_ok \in BOOLEAN :
        SetupWorkspace(profile_name, email, username, provider, None, base_dir, mkdir_ok)

SpecWorkspace == (Init \/ InitSystem) /\ [][NextWorkspace]_vars

\* keys, backup, restore and clean in a home directory that has files already
NextSystem ==
    \/ \E name \in {"p1"}, email \in ReuseEmails, username \in Usernames,
          provider \in ProfileProviders, base_dir \in ProfileBaseDirs,
          force \in BOOLEAN, reuse_credentials \in BOOLEAN :
            CreateProfile(name, email, username, provider, base_dir, force,
                          reuse_credentials, TRUE, FALSE, TRUE)
    \/ \E name \in KeyNames, key_type \in KeyTypes, force \in BOOLEAN, valid \in BOOLEAN,
          use_existing \in BOOLEAN, generate_new \in BOOLEAN, keygen_ok \in BOOLEAN :
            GenerateKey(name, key_type, force, valid, use_existing, generate_new, keygen_ok)
    \/ BackupConfigs
    \/ \E backup \in backups.dirs : RestoreConfigs(backup)
    \/ CleanExistingConfigs({})

SpecSystem == InitSystem /\ [][NextSystem]_vars

---------------------------------------------------------------------------
\* profiles whose workspaces the user turns into repositories and edits by hand
EditedUsernames == Usernames \cup {"other"}

NextValidate ==
    \/ \E name \in Names, email \in Emails, username \in Usernames,
          provider \in ProfileProviders, base_dir \in ProfileBaseDirs, force \in BOOLEAN :
          CreateProfile(name, email, username, provider, base_dir, force, FALSE,
                        TRUE, FALSE, TRUE)
    \/ \E name \in Names, keep_credentials \in BOOLEAN, rm_workspace \in BOOLEAN :
          DeleteProfile(name, FALSE, keep_credentials, rm_workspace)
    \/ \E workspace \in DOMAIN ws_config : UserGitInit(workspace)
    \/ \E workspace \in DOMAIN ws_config, email \in Emails : UserEditsEmail(workspace, email)
    \/ \E workspace \in DOMAIN ws_config, username \in EditedUsernames :
          UserEditsName(workspace, username)

SpecValidate == Init /\ [][NextValidate]_vars

---------------------------------------------------------------------------

\* the profile lifecycle with the update command
NextUpdate ==
    \/ \E name \in Names, email \in ReuseEmails, username \in Usernames,
          provider \in ProfileProviders, base_dir \in ProfileBaseDirs :
          CreateProfile(name, email, username, provider, base_dir, FALSE,
                        TRUE, TRUE, FALSE, TRUE)
    \/ \E name \in Names, email \in {None} \cup {Some(e) : e \in Emails},
          username \in {None} \cup {Some(u) : u \in Usernames},
          provider \in BOOLEAN, remove_provider \in BOOLEAN :
          UpdateProfile(name, email, username, provider, remove_provider)
    \/ \E name \in Names, keep_credentials \in BOOLEAN :
          DeleteProfile(name, FALSE, keep_credentials, FALSE)
    \/ \E name \in Names : ActivateProfile(name)
    \/ \E workspace \in dirs : UserRemovesWorkspace(workspace)

SpecUpdate == Init /\ [][NextUpdate]_vars

---------------------------------------------------------------------------

\* profiles whose workspaces lose and regain their directory or its write
\* permission
NextActivate ==
    \/ \E name \in Names, email \in ReuseEmails, username \in Usernames,
          provider \in ProfileProviders, base_dir \in BaseDirs, force \in BOOLEAN :
          CreateProfile(name, email, username, provider, base_dir, force, TRUE,
                        TRUE, FALSE, TRUE)
    \/ \E name \in Names : ActivateProfile(name)
    \/ \E name \in Names, rm_workspace \in BOOLEAN :
          DeleteProfile(name, FALSE, TRUE, rm_workspace)
    \/ \E workspace \in dirs : UserRemovesWorkspace(workspace)
    \/ \E workspace \in dirs, writable \in BOOLEAN :
          UserChmodsWorkspace(workspace, writable)

SpecActivate == Init /\ [][NextActivate]_vars

---------------------------------------------------------------------------

\* profiles created on a machine where gpg comes and goes
NextGpg ==
    \/ \E name \in Names, email \in Emails, username \in Usernames,
          provider \in ProfileProviders, base_dir \in ProfileBaseDirs,
          reuse_credentials \in BOOLEAN, gpg_installed \in BOOLEAN :
          CreateProfile(name, email, username, provider, base_dir, TRUE,
                        reuse_credentials, TRUE, gpg_installed, TRUE)
    \/ \E name \in Names, keep_credentials \in BOOLEAN :
          DeleteProfile(name, FALSE, keep_credentials, FALSE)
    \/ NewProfileManager

SpecGpg == Init /\ [][NextGpg]_vars

---------------------------------------------------------------------------

\* a home directory with key pairs ~/.ssh/id_work_rsa and ~/.ssh/id_github of
\* the user's own, a ~/.ssh/config with a block for an alias of gitlab.com, and
\* a known_hosts
InitSsh ==
    /\ profiles = << >>
    /\ heap = << >>
    /\ credentials = << >>
    /\ store = [exists |-> FALSE, data |-> << >>]
    /\ ssh_files = [q \in {GeneratedKeyPath("work", "rsa"),
                           PubPath(GeneratedKeyPath("work", "rsa")),
                           "~/.ssh/id_github", PubPath("~/.ssh/id_github"),
                           SshConfigPath, KnownHostsPath} |->
                       IF q = SshConfigPath
                       THEN KeyFile("0644", <<HostLine("gitlab.com-work"),
                                              IdentityFileLine("~/.ssh/id_gitlab")>>)
                       ELSE IF q = KnownHostsPath
                       THEN KeyFile("0644", <<"github.com ssh-ed25519">>)
                       ELSE IF EndsWithPub(q) THEN KeyFile("0644", <<"user key">>)
                       ELSE KeyFile("0600", <<"user key">>)]
    /\ gitconfig = File(<<"[alias]">>)
    /\ ws_config = << >>
    /\ dirs = {}
    /\ unwritable = {}
    /\ backups = EmptyBackups

\* keys are generated and registered in ~/.ssh/config
NextSsh ==
    \/ \E name \in KeyNames, key_type \in KeyTypes, force \in BOOLEAN, valid \in BOOLEAN,
          use_existing \in BOOLEAN, generate_new \in BOOLEAN, keygen_ok \in BOOLEAN :
            GenerateKey(name, key_type, force, valid, use_existing, generate_new, keygen_ok)
    \/ \E name \in KeyNames, key_type \in KeyTypes, host \in ProviderHosts :
            UpdateConfig(GeneratedKeyPath(name, key_type), host)
    \/ \E name \in KeyNames, key_type \in KeyTypes, host \in ProviderHosts :
            UpdateSshConfig(GeneratedKeyPath(name, key_type), host)
    \/ \E path \in DOMAIN ssh_files \ {KnownHostsPath} : UserDeletesFile(path)

SpecSsh == InitSsh /\ [][NextSsh]_vars

\* backups are made and restored while the files they hold change
NextBackup ==
    \/ BackupConfigs
    \/ \E backup \in backups.dirs : RestoreConfigs(backup)
    \/ \E path \in {"~/.gitconfig", KnownHostsPath} : UserDeletesFile(path)
    \/ UpdateConfig(GeneratedKeyPath("work", "rsa"), "github.com")
    \/ GenerateKey("work", "rsa", TRUE, TRUE, TRUE, FALSE, TRUE)

SpecBackup == InitSsh /\ [][NextBackup]_vars

---------------------------------------------------------------------------

\* clean with removals that fail, in a home directory with a backup and a store
NextClean ==
    \/ \E failing \in SUBSET CleanArtifacts : CleanExistingConfigs(failing)
    \/ backups.dirs = {} /\ BackupConfigs
    \/ CreateProfile("p1", "a@x.io", "u1", "github", "/ws", TRUE, FALSE, TRUE, FALSE, TRUE)

SpecClean == InitSystem /\ [][NextClean]_vars

---------------------------------------------------------------------------

\* profiles of several identities for one provider, in a home directory that
\* has the key pair ~/.ssh/id_<provider> already
NextDelete ==
    \/ \E name \in Names, email \in Emails, username \in Usernames,
          provider \in ProfileProviders, base_dir \in ProfileBaseDirs :
            CreateProfile(name, email, username, provider, base_dir, FALSE,
                          TRUE, TRUE, FALSE, TRUE)
    \/ \E name \in Names, keep_files \in BOOLEAN, keep_credentials \in BOOLEAN,
          rm_workspace \in BOOLEAN :
            DeleteProfile(name, keep_files, keep_credentials, rm_workspace)

SpecDelete == InitReuse /\ [][NextDelete]_vars

---------------------------------------------------------------------------

\* setup --clean-setup in a home directory that has keys and Host blocks of the
\* providers
NextSetup ==
    \/ /\ backups.dirs = {}
       /\ \E provider \in Providers, non_interactive \in BOOLEAN, no_backup \in BOOLEAN,
             proceed \in BOOLEAN, backup_ok \in BOOLEAN :
               Setup("p1", "a@x.io", "u1", provider, "/ws", TRUE, non_interactive,
                     no_backup, TRUE, proceed, backup_ok, TRUE, FALSE, TRUE)
    \/ \E path \in {GitconfigPath, KnownHostsPath, "~/.ssh/id_github"} : UserDeletesFile(path)

SpecSetup == InitSsh /\ [][NextSetup]_vars

---------------------------------------------------------------------------

(* Properties *)

ActiveNames(ps) == {ps[i].name : i \in {j \in DOMAIN ps : ps[j].is_active}}

SameIdentity(c, d) == c.email = d.email /\ c.username = d.username

KeyPathsOf(c) ==
    IF c.ssh_key = None THEN {} ELSE {c.ssh_key[1].private_key, c.ssh_key[1].public_key}

\* C1: in every reachable state at most one profile is active, in the manager
\* and in the persisted store, and an activate_profile(n) that returns leaves n
\* active and every other profile inactive, in both.
C1_AtMostOneActive ==
    /\ Cardinality(ActiveNames(profiles)) <= 1
    /\ Cardinality(ActiveNames(store.data)) <= 1
    /\ \A n \in Names :
          LET r == activate_profile(n)
          IN r.raised = NoError =>
                /\ ActiveNames(r.profiles) = {n}
                /\ ActiveNames(r.store.data) = {n}

\* two profiles are stored, the second active, and activating the first succeeds
C1_Witness ==
    /\ Len(store.data) = 2
    /\ Len(profiles) = 2
    /\ ActiveNames(store.data) = {store.data[2].name}
    /\ activate_profile(profiles[1].name).raised = NoError

\* C2: delete_profile(A, keep_files=False), whatever keep_credentials and the
\* answer to the workspace prompt, leaves the private and public key file of A's
\* credential as they are when a profile B that stays has A's (email, username).
C2_SharedKeysKept ==
    \A i \in DOMAIN profiles : \A keep_credentials \in BOOLEAN, rm_workspace \in BOOLEAN :
        LET cred == heap[profiles[i].credentials]
            r == delete_profile(profiles[i].name, FALSE, keep_credentials, rm_workspace)
        IN (\E j \in DOMAIN r.profiles :
                SameIdentity(r.heap[r.profiles[j].credentials], cred))
           => \A q \in KeyPathsOf(cred) \cap DOMAIN ssh_files :
                 q \in DOMAIN r.ssh_files /\ r.ssh_files[q] = ssh_files[q]

\* two profiles with one (email, username) hold copies of the credential, the
\* key files are there, and the first is deleted with keep_credentials=False
C2_Witness ==
    /\ Len(profiles) = 2
    /\ profiles[1].credentials # profiles[2].credentials
    /\ SameIdentity(heap[profiles[1].credentials], heap[profiles[2].credentials])
    /\ KeyPathsOf(heap[profiles[1].credentials]) # {}
    /\ KeyPathsOf(heap[profiles[1].credentials]) \subseteq DOMAIN ssh_files
    /\ delete_profile(profiles[1].name, FALSE, FALSE, FALSE).raised = NoError
    /\ Len(delete_profile(profiles[1].name, FALSE, FALSE, FALSE).profiles) = 1

\* C3: delete_profile(name, keep_files=False) with keep_credentials at its
\* default, on the last profile that has its (email, username), removes the
\* private and public key file of the credential.
C3_LastDeleteRemovesKeys ==
    \A i \in DOMAIN profiles : \A rm_workspace \in BOOLEAN :
        LET cred == heap[profiles[i].credentials]
            r == delete_profile(profiles[i].name, FALSE, DefaultKeepCredentials, rm_workspace)
        IN ~OtherProfileMatches(profiles[i].name, cred.email, cred.username)
           => \A q \in KeyPathsOf(cred) : q \notin DOMAIN r.ssh_files

\* C4: create_profile on a name that is stored, with force=False, raises a
\* profile-conflict error that carries the name and the stored profile's
\* email, username, workspace directory and provider.
C4_SecondCreateConflicts ==
    \A i \in DOMAIN profiles :
        \A email \in Emails, username \in Usernames, provider \in ProfileProviders,
           base_dir \in ProfileBaseDirs, reuse_credentials \in BOOLEAN,
           overwrite \in BOOLEAN, reuse_answer \in BOOLEAN :
            LET p == profiles[i]
                r == create_profile(p.name, email, username, provider, base_dir, FALSE,
                                    reuse_credentials, overwrite, reuse_answer, FALSE,
                                    TRUE, FALSE, TRUE)
            IN /\ r.raised.kind = "ProfileError"
               /\ r.raised.profile_name = Some(p.name)
               /\ r.raised.current_config =
                     Some([email |-> heap[p.credentials].email,
                           username |-> heap[p.credentials].username,
                           workspace_dir |-> p.workspace_dir,
                           provider |-> p.provider])

PrivateKeyOf(h, p) == h[p.credentials].ssh_key[1].private_key

C6_SharedReference ==
    \A i \in DOMAIN profiles, j \in DOMAIN profiles :
        SameIdentity(heap[profiles[i].credentials], heap[profiles[j].credentials])
        => profiles[i].credentials = profiles[j].credentials

StanzaCount(lines, workspace) ==
    Cardinality({i \in 1..(Len(lines) - 1) :
                    lines[i] = IncludeHeader(workspace)
                    /\ lines[i + 1] = IncludePath(workspace)})

AllWorkspaces == {Resolve(Join(b, n)) : b \in BaseDirs, n \in WorkspaceNames}

\* C7: after any sequence of setup_workspace calls ~/.gitconfig holds exactly
\* one includeIf stanza for each workspace directory set up and none for any
\* other, and a call repeated with the same arguments leaves exactly one.
C7_OneStanzaPerWorkspace ==
    /\ \A w \in AllWorkspaces :
          StanzaCount(gitconfig.lines, w) = IF w \in DOMAIN ws_config THEN 1 ELSE 0
    /\ \A profile_name \in WorkspaceNames, email \in Emails, username \in Usernames,
          provider \in Providers, base_dir \in BaseDirs :
          LET once == setup_workspace(Current, profile_name, email, username, provider,
                                      None, base_dir, TRUE)
              twice == setup_workspace(once, profile_name, email, username, provider,
                                       None, base_dir, TRUE)
          IN /\ StanzaCount(twice.gitconfig.lines, Resolve(Join(base_dir, profile_name))) = 1
             /\ twice.gitconfig = once.gitconfig

\* every workspace is set up, and the last call found ~/.gitconfig as it is
\* now: it was a call for a workspace that had its stanza
C7_Witness ==
    /\ DOMAIN ws_config = AllWorkspaces
    /\ gitconfig \in backups.gitconfig_files
    /\ \A w \in AllWorkspaces : StanzaCount(gitconfig.lines, w) = 1

\* C8: after a delete_profile(name, keep_files=False) that returns, the
\* profile's workspace .gitconfig is gone and ~/.gitconfig has no includeIf
\* stanza for the workspace.
C8_DeleteRemovesWorkspaceConfig ==
    \A i \in DOMAIN profiles : \A keep_credentials \in BOOLEAN, rm_workspace \in BOOLEAN :
        LET workspace == Resolve(profiles[i].workspace_dir)
            r == delete_profile(profiles[i].name, FALSE, keep_credentials, rm_workspace)
        IN r.raised = NoError =>
              /\ workspace \notin DOMAIN r.ws_config
              /\ ~ContainsStanza(r.gitconfig.lines, workspace)

\* C9: whenever clean_existing_configs() runs while ~/.gitconfig exists, a
\* backup directory holds a copy of that file, with its content, before the
\* first deletion.
C9_CleanAfterBackup ==
    [][(CleanExistingConfigs({}) /\ gitconfig.exists)
        => \E b \in backups.dirs : b.gitconfig = gitconfig /\ b.gitconfig.lines # << >>]_vars

ModesRight(files, key) ==
    /\ key.private_key \in DOMAIN files => files[key.private_key].mode = "0600"
    /\ key.public_key \in DOMAIN files => files[key.public_key].mode = "0644"

\* C10: the key pair that generate_key returns, the key pair that create_profile
\* sets up or picks up for new credentials, and every key file that
\* restore_configs restores have modes 0600 (private) and 0644 (public).
C10_KeyModes ==
    /\ \A name \in KeyNames, key_type \in KeyTypes, force \in BOOLEAN, valid \in BOOLEAN,
          use_existing \in BOOLEAN, generate_new \in BOOLEAN, keygen_ok \in BOOLEAN :
          LET r == generate_key(ssh_files, name, key_type, force, valid, use_existing,
                                generate_new, keygen_ok)
          IN r.key # None => ModesRight(r.files, r.key[1])
    /\ \A name \in Names, email \in Emails, username \in Usernames,
          provider \in ProfileProviders, base_dir \in ProfileBaseDirs,
          force \in BOOLEAN, reuse_credentials \in BOOLEAN, overwrite \in BOOLEAN,
          reuse_answer \in BOOLEAN, new_key \in BOOLEAN :
          LET r == create_profile(name, email, username, provider, base_dir, force,
                                  reuse_credentials, overwrite, reuse_answer, new_key,
                                  TRUE, FALSE, TRUE)
          IN (r.created /\ r.handed # None) => ModesRight(r.ssh_files, r.handed[1])
    /\ \A backup \in backups.dirs :
          \A q \in {p \in DOMAIN backup.ssh : IsIdFile(p)} :
             restore_configs(backup).ssh_files[q].mode
                = IF EndsWithPub(q) THEN "0644" ELSE "0600"

\* C11: validate_profile(name) returns true for a stored profile whose
\* workspace is as create_profile left it (the directory, the .gitconfig it
\* wrote, nothing added), and returns false once user.email or user.name in
\* the workspace .gitconfig differs from the profile's credential.
C11_ValidateDetectsDrift ==
    \A i \in DOMAIN profiles :
        LET p == profiles[i]
            cred == heap[p.credentials]
            w == Resolve(p.workspace_dir)
            r == validate_profile(p.name)
        IN /\ (/\ w \in dirs
               /\ GitDir(w) \notin dirs
               /\ w \in DOMAIN ws_config
               /\ ws_config[w] = WorkspaceGitConfig(cred.email, cred.username, p.provider,
                                                    None)
               /\ SSHKeyExists(ssh_files, cred.ssh_key[1]))
              => (r.raised = NoError /\ r.value)
           /\ (/\ w \in DOMAIN ws_config
               /\ \/ ws_config[w].user_email # cred.email
                  \/ ws_config[w].user_name # cred.username)
              => (r.raised = NoError /\ ~r.value)

ProfilesNamed(ps, name) == {i \in DOMAIN ps : ps[i].name = name}

C13_LookupByIdentity ==
    \A email \in Emails, username \in Usernames :
        LET c == find_matching_credentials(email, username)
        IN /\ c # NoCred => (heap[c].email = email /\ heap[c].username = username)
           /\ (\A k \in DOMAIN credentials :
                  ~(heap[credentials[k]].email = email
                    /\ heap[credentials[k]].username = username))
              => c = NoCred

\* a profile set as the claim describes it: names in order, each with its
\* email, username, provider, workspace_dir, is_active flag and keys
Described(ps, h) ==
    [i \in DOMAIN ps |->
        [name |-> ps[i].name, email |-> h[ps[i].credentials].email,
         username |-> h[ps[i].credentials].username, provider |-> ps[i].provider,
         workspace_dir |-> ps[i].workspace_dir, is_active |-> ps[i].is_active,
         ssh_key |-> h[ps[i].credentials].ssh_key,
         gpg_key |-> h[ps[i].credentials].gpg_key]]

\* what a ProfileManager built on the store st holds
LoadedFrom(st) ==
    IF ~st.exists THEN << >>
    ELSE Described([i \in DOMAIN st.data |-> ProfileFromDict(st.data[i], i)],
                   [i \in DOMAIN st.data |-> CredentialsFromDict(st.data[i])])

InSync(r) == LoadedFrom(r.store) = Described(r.profiles, r.heap)

\* C14: after a create_profile, delete_profile, activate_profile or update
\* (with --email or --username) that succeeds, a ProfileManager built on
\* profiles.json holds the profile names the manager holds, each with the same
\* email, username, provider, workspace_dir, is_active flag and keys.
C14_StoreMatchesMemory ==
    /\ \A name \in Names, email \in Emails, username \in Usernames,
          provider \in ProfileProviders, base_dir \in ProfileBaseDirs,
          force \in BOOLEAN, reuse_credentials \in BOOLEAN, reuse_answer \in BOOLEAN,
          gpg_installed \in BOOLEAN :
          LET r == create_profile(name, email, username, provider, base_dir, force,
                                  reuse_credentials, TRUE, reuse_answer, FALSE,
                                  TRUE, gpg_installed, TRUE)
          IN r.created => InSync(r)
    /\ \A name \in Names, keep_files \in BOOLEAN, keep_credentials \in BOOLEAN,
          rm_workspace \in BOOLEAN :
          LET r == delete_profile(name, keep_files, keep_credentials, rm_workspace)
          IN r.raised = NoError => InSync(r)
    /\ \A name \in Names :
          LET r == activate_profile(name)
          IN r.raised = NoError => InSync(r)
    /\ \A name \in Names, email \in {None} \cup {Some(e) : e \in Emails},
          username \in {None} \cup {Some(u) : u \in Usernames} :
          LET r == update(name, email, username, FALSE, FALSE)
          IN (r.raised = NoError /\ (email # None \/ username # None)) => InSync(r)

\* the manager and the store differ (an activation failed after the flags were
\* set), two profiles are stored, one active, and an activation succeeds
C14_Witness ==
    /\ ~InSync(Current)
    /\ Len(profiles) = 2
    /\ \E i \in DOMAIN store.data : store.data[i].is_active
    /\ \E name \in Names : activate_profile(name).raised = NoError

InvalidWorkspace(error) ==
    error.kind = "GitplexError" /\ error.message = "Invalid workspace directory"

\* C15: activate_profile(name) on a stored profile raises the invalid
\* workspace error when the profile's workspace directory is missing or cannot
\* be written in, and does not raise it when the directory is there and can
\* be written in.
C15_ActivateChecksWorkspace ==
    \A i \in DOMAIN profiles :
        LET w == Resolve(profiles[i].workspace_dir)
            r == activate_profile(profiles[i].name)
        IN InvalidWorkspace(r.raised) <=> (w \notin dirs \/ w \in unwritable)

\* two profiles are stored, the workspace of one is there and read-only, the
\* workspace of the other is there and writable
C15_Witness ==
    /\ Len(profiles) = 2
    /\ Resolve(profiles[1].workspace_dir) \in dirs \cap unwritable
    /\ Resolve(profiles[2].workspace_dir) \in dirs \ unwritable
    /\ InvalidWorkspace(activate_profile(profiles[1].name).raised)
    /\ activate_profile(profiles[2].name).raised = NoError

ProfileNotFound(error, name) ==
    error.kind = "GitplexError" /\ error.message = "Profile not found: " \o name

GpgKeyOf(h, p) == h[p.credentials].gpg_key

\* C17 as stated: without gpg, a create_profile that nothing else stops (key
\* generation and mkdir succeed, force is on) stores and persists the profile,
\* and the profile has no GPG key.
C17_NoGpgNoKey ==
    \A name \in Names, email \in Emails, username \in Usernames,
       provider \in Providers, base_dir \in BaseDirs, reuse_credentials \in BOOLEAN,
       reuse_answer \in BOOLEAN, new_key \in BOOLEAN :
        LET r == create_profile(name, email, username, provider, base_dir, TRUE,
                                reuse_credentials, FALSE, reuse_answer, new_key,
                                TRUE, FALSE, TRUE)
        IN /\ r.raised = NoError /\ r.created
           /\ HasProfile(r.profiles, name) /\ HasProfile(r.store.data, name)
           /\ GpgKeyOf(r.heap, GetProfile(r.profiles, name)) = None
           /\ GetProfile(r.store.data, name).credentials.gpg_key = None

\* C17, amended: without gpg, a create_profile that nothing else stops stores
\* and persists the profile; the profile has no GPG key when the call builds
\* its credentials, and has the GPG key of the registered credential, if any,
\* when the call reuses that credential.
C17_NoGpgStillCreates ==
    \A name \in Names, email \in Emails, username \in Usernames,
       provider \in Providers, base_dir \in BaseDirs, reuse_credentials \in BOOLEAN,
       reuse_answer \in BOOLEAN, new_key \in BOOLEAN :
        LET r == create_profile(name, email, username, provider, base_dir, TRUE,
                                reuse_credentials, FALSE, reuse_answer, new_key,
                                TRUE, FALSE, TRUE)
            reused == ReusedCredentials(email, username, reuse_credentials, reuse_answer)
            expected == IF reused = NoCred THEN None ELSE heap[reused].gpg_key
        IN /\ r.raised = NoError /\ r.created
           /\ HasProfile(r.profiles, name) /\ HasProfile(r.store.data, name)
           /\ GpgKeyOf(r.heap, GetProfile(r.profiles, name)) = expected
           /\ GetProfile(r.store.data, name).credentials.gpg_key
                 = IF expected = None THEN None ELSE Some(GPGKeyToDict(expected[1]))

\* a profile made while gpg was there is stored with its GPG key, and without
\* gpg a second profile is created with credentials of its own and no GPG key
C17_Witness ==
    /\ Len(profiles) = 1
    /\ GpgKeyOf(heap, profiles[1]) # None
    /\ \E name \in Names \ {profiles[1].name}, email \in Emails :
          LET r == create_profile(name, email, "u1", "github", "/lnk", TRUE,
                                  TRUE, FALSE, FALSE, FALSE, TRUE, FALSE, TRUE)
          IN /\ r.created
             /\ Len(r.profiles) = 2
             /\ GpgKeyOf(r.heap, GetProfile(r.profiles, name)) = None

---------------------------------------------------------------------------
\* the files of ~/.ssh a backup directory holds come back with the content
\* the directory holds
SshRestored(backup, files) ==
    \A q \in DOMAIN backup.ssh :
        q \in DOMAIN files /\ files[q].content = backup.ssh[q].content

---------------------------------------------------------------------------
\* the lines of a config that open a block for the host
HostBlocks(config, host) == {i \in DOMAIN config : config[i] = HostLine(host)}

\* the config of files has exactly one block for the host, naming the key
Registered(files, private_key, host) ==
    /\ Cardinality(HostBlocks(ReadConfig(files), host)) = 1
    /\ \A i \in HostBlocks(ReadConfig(files), host) :
           /\ i + 1 \in DOMAIN ReadConfig(files)
           /\ ReadConfig(files)[i + 1] = IdentityFileLine(private_key)

\* C19: after a key K is registered for a host H (SSHConfig._update_config or
\* backup.py update_ssh_config), ~/.ssh/config holds exactly one "Host H" block
\* and its IdentityFile is K, whatever block for H was there before
C19_RegistrationReplacesBlock ==
    \A name \in KeyNames, key_type \in KeyTypes, host \in ProviderHosts :
        LET private_key == GeneratedKeyPath(name, key_type)
            key == SSHKey(private_key, PubPath(private_key))
        IN (private_key \in DOMAIN ssh_files /\ PubPath(private_key) \in DOMAIN ssh_files)
           => /\ Registered(_update_config(ssh_files, key, host), private_key, host)
              /\ Registered(update_ssh_config(ssh_files, private_key, host),
                            private_key, host)

---------------------------------------------------------------------------
\* two sets of files with the same names and, name by name, the same bytes
SameContent(before, after) ==
    /\ DOMAIN before = DOMAIN after
    /\ \A q \in DOMAIN before : before[q].content = after[q].content

PairExists(files, private_key) ==
    private_key \in DOMAIN files /\ PubPath(private_key) \in DOMAIN files

\* C20 as stated: with a key pair at the target path and force false, key setup
\* (generate_key, and create_profile for ~/.ssh/id_<provider>) generates
\* nothing: the files keep their content and the existing key is returned.
C20_ExistingKeyReused ==
    /\ \A name \in KeyNames, key_type \in KeyTypes, valid \in BOOLEAN,
          use_existing \in BOOLEAN, generate_new \in BOOLEAN, keygen_ok \in BOOLEAN :
           LET private_key == GeneratedKeyPath(name, key_type)
               r == generate_key(ssh_files, name, key_type, FALSE, valid, use_existing,
                                 generate_new, keygen_ok)
           IN PairExists(ssh_files, private_key)
              => /\ r.key = Some(SSHKey(private_key, PubPath(private_key)))
                 /\ SameContent(ssh_files, r.files)
    /\ \A email \in Emails, provider \in Providers, new_key \in BOOLEAN :
           LET private_key == "~/.ssh/id_" \o provider
               r == create_profile("p1", email, "u1", provider, "/ws", FALSE, FALSE,
                                   FALSE, FALSE, new_key, TRUE, TRUE, TRUE)
           IN (PairExists(ssh_files, private_key) /\ ~HasProfile(profiles, "p1"))
              => /\ r.created
                 /\ r.handed = Some(SSHKey(private_key, PubPath(private_key)))
                 /\ SameContent(ssh_files, r.ssh_files)

\* C20 (amended): the same, as long as no new key is asked for: in generate_key
\* the existing pair validates and "use the existing key?" is accepted, in
\* create_profile the connection test passes or "create a new key instead?" is
\* declined.
C20_ExistingKeyReusedOnAccept ==
    /\ \A name \in KeyNames, key_type \in KeyTypes, generate_new \in BOOLEAN,
          keygen_ok \in BOOLEAN :
           LET private_key == GeneratedKeyPath(name, key_type)
               r == generate_key(ssh_files, name, key_type, FALSE, TRUE, TRUE,
                                 generate_new, keygen_ok)
           IN PairExists(ssh_files, private_key)
              => /\ r.raised = NoError
                 /\ r.key = Some(SSHKey(private_key, PubPath(private_key)))
                 /\ SameContent(ssh_files, r.files)
    /\ \A email \in Emails, provider \in Providers :
           LET private_key == "~/.ssh/id_" \o provider
               r == create_profile("p1", email, "u1", provider, "/ws", FALSE, FALSE,
                                   FALSE, FALSE, FALSE, TRUE, TRUE, TRUE)
           IN (PairExists(ssh_files, private_key) /\ ~HasProfile(profiles, "p1"))
              => /\ r.created
                 /\ r.handed = Some(SSHKey(private_key, PubPath(private_key)))
                 /\ SameContent(ssh_files, r.ssh_files)

\* the user's own pairs are at ~/.ssh/id_work_rsa and ~/.ssh/id_github; both
\* calls hand them back, and a forced generate_key would have rewritten the first
C20_Witness ==
    /\ PairExists(ssh_files, GeneratedKeyPath("work", "rsa"))
    /\ PairExists(ssh_files, "~/.ssh/id_github")
    /\ generate_key(ssh_files, "work", "rsa", FALSE, TRUE, TRUE, FALSE, TRUE).key
           = Some(SSHKey(GeneratedKeyPath("work", "rsa"),
                         PubPath(GeneratedKeyPath("work", "rsa"))))
    /\ ~SameContent(ssh_files,
                    generate_key(ssh_files, "work", "rsa", TRUE, TRUE, TRUE, FALSE,
                                 TRUE).files)
    /\ create_profile("p1", "a@x.io", "u1", "github", "/ws", FALSE, FALSE, FALSE,
                      FALSE, FALSE, TRUE, TRUE, TRUE).handed
           = Some(SSHKey("~/.ssh/id_github", PubPath("~/.ssh/id_github")))

---------------------------------------------------------------------------
\* C21: the .gitconfig setup_workspace writes in the workspace has a [user]
\* block with the given email and username, and a block named after the given
\* provider, whichever provider it is, holding user = <username>
C21_ProviderBlock ==
    \A profile_name \in WorkspaceNames, email \in Emails, username \in Usernames,
       provider \in Providers, base_dir \in BaseDirs :
        LET r == setup_workspace(Current, profile_name, email, username, provider, None,
                                 base_dir, TRUE)
            workspace == Resolve(r.workspace_dir)
        IN r.raised = NoError
           => /\ r.ws_config[workspace].user_email = email
              /\ r.ws_config[workspace].user_name = username
              /\ r.ws_config[workspace].provider_section = provider
              /\ r.ws_config[workspace].provider_user = username

---------------------------------------------------------------------------
\* what clean_existing_configs finds: the files, the GPG key ids it reads from
\* the listing, the GitPlex directory
FoundArtifacts(gpg_lines) ==
    {a \in {GitconfigPath} : gitconfig.exists}
        \cup {a \in DOMAIN ssh_files : a = SshConfigPath \/ IsIdFile(a)}
        \cup {gpg_lines[i].key_id[1] :
                 i \in {j \in DOMAIN gpg_lines :
                           gpg_lines[j].gitplex /\ gpg_lines[j].key_id # None}}
        \cup {a \in {GitplexDir} : GitplexDirExists}

\* the removal of the artifact raises
Fails(a, failing) ==
    a \in failing \/ (a = SshConfigPath /\ SshConfigBakPath \in failing)

\* the artifact is gone after the call
Removed(a, r, failing, gpg_lines) ==
    IF a = GitconfigPath THEN ~r.gitconfig.exists
    ELSE IF a = GitplexDir THEN ~r.store.exists /\ r.backups = EmptyBackups
    ELSE IF a \in DOMAIN ssh_files THEN a \notin DOMAIN r.ssh_files
    ELSE a \in cleaned_gpg_keys(failing, gpg_lines)

\* C22: in clean_existing_configs a removal that fails is reported for its
\* artifact, and every artifact whose removal does not fail is removed, whatever
\* failed before it
C22_CleanPerArtifact ==
    \A failing \in SUBSET CleanArtifacts, gpg_lines \in GpgListings :
        \A a \in FoundArtifacts(gpg_lines) :
            IF Fails(a, failing)
            THEN a \in clean_errors(failing, gpg_lines)
            ELSE Removed(a, clean_existing_configs(failing), failing, gpg_lines)

\* ~/.gitconfig, ~/.ssh/config, a key pair and ~/.gitplex are there; the unlink
\* of ~/.gitconfig and of the private key fail, and the rest is removed
C22_Witness ==
    /\ gitconfig.exists /\ store.exists /\ backups.dirs # {}
    /\ {SshConfigPath, "~/.ssh/id_github", PubPath("~/.ssh/id_github")}
           \subseteq DOMAIN ssh_files
    /\ LET failing == {GitconfigPath, "~/.ssh/id_github"}
           r == clean_existing_configs(failing)
       IN /\ r.gitconfig = gitconfig
          /\ DOMAIN r.ssh_files \cap {SshConfigPath, "~/.ssh/id_github",
                                      PubPath("~/.ssh/id_github")}
                 = {"~/.ssh/id_github"}
          /\ ~r.store.exists
          /\ clean_errors(failing, << >>) = failing

---------------------------------------------------------------------------
\* C23: a backup directory made by backup_configs before clean_existing_configs
\* runs is still there when clean_existing_configs has completed
C23_BackupSurvivesClean ==
    \A backup \in backups.dirs :
        backup \in clean_existing_configs({}).backups.dirs

---------------------------------------------------------------------------
\* the key files the credential of a profile names
KeyFilesOf(h, profile) ==
    IF h[profile.credentials].ssh_key = None THEN {}
    ELSE {h[profile.credentials].ssh_key[1].private_key,
          h[profile.credentials].ssh_key[1].public_key}

\* C24: after a delete_profile call, whatever keep_files and keep_credentials
\* are, the SSH key files of every profile that remains are still there
C24_RemainingKeysKept ==
    \A name \in Names, keep_files \in BOOLEAN, keep_credentials \in BOOLEAN,
       rm_workspace \in BOOLEAN :
        LET r == delete_profile(name, keep_files, keep_credentials, rm_workspace)
        IN r.raised = NoError
           => \A i \in DOMAIN r.profiles :
                  \A q \in KeyFilesOf(r.heap, r.profiles[i]) :
                      q \in DOMAIN ssh_files => q \in DOMAIN r.ssh_files

---------------------------------------------------------------------------
\* the email and username of the profile called other, in memory and as saved
IdentityOf(r, other) ==
    [email |-> r.heap[GetProfile(r.profiles, other).credentials].email,
     username |-> r.heap[GetProfile(r.profiles, other).credentials].username,
     saved |-> {<<r.store.data[i].credentials.email, r.store.data[i].credentials.username>> :
                   i \in {j \in DOMAIN r.store.data : r.store.data[j].name = other}}]

\* C25: an update of the email or username of one profile leaves the email and
\* username of every other profile as they were, in memory and in the store
C25_UpdateTouchesOneProfile ==
    \A name \in Names, email \in {None} \cup {Some(e) : e \in Emails},
       username \in {None} \cup {Some(u) : u \in Usernames} :
        LET r == update(name, email, username, FALSE, FALSE)
        IN (r.raised = NoError /\ HasProfile(profiles, name))
           => \A other \in {profiles[i].name : i \in DOMAIN profiles} \ {name} :
                  IdentityOf(r, other) = IdentityOf(Current, other)

---------------------------------------------------------------------------
\* C26: every entry of the credential registry is stored under the key made of
\* its own email and username, and the lookup of a profile's email and username
\* returns that profile's credential (an object equal to it, field by field)
C26_RegistryKeyedByIdentity ==
    /\ \A k \in DOMAIN credentials :
           k = CredKey(heap[credentials[k]].email, heap[credentials[k]].username)
    /\ \A i \in DOMAIN profiles :
           LET c == find_matching_credentials(heap[profiles[i].credentials].email,
                                              heap[profiles[i].credentials].username)
           IN c # NoCred /\ heap[c] = heap[profiles[i].credentials]

---------------------------------------------------------------------------
\* the is_active flag of each profile, by name
ActiveFlags(ps) == {<<ps[i].name, ps[i].is_active>> : i \in DOMAIN ps}

\* the flags in the persisted store
SavedFlags(st) == {<<st.data[i].name, st.data[i].is_active>> : i \in DOMAIN st.data}

\* C27: when activate_profile fails on an invalid workspace, every is_active
\* flag is what it was before the call, in memory and in the persisted store
C27_FailedActivateKeepsFlags ==
    \A name \in Names :
        LET r == activate_profile(name)
        IN InvalidWorkspace(r.raised)
           => /\ ActiveFlags(r.profiles) = ActiveFlags(profiles)
              /\ SavedFlags(r.store) = SavedFlags(store)

---------------------------------------------------------------------------
\* the registry as keys and the credentials stored under them
RegistryOf(r) == [k \in DOMAIN r.credentials |-> r.heap[r.credentials[k]]]

\* C28: a create_profile call that raises leaves the profile map, the
\* credential registry and the persisted store as they were before the call
C28_FailedCreateChangesNothing ==
    \A name \in Names, email \in Emails, username \in Usernames,
       provider \in ProfileProviders, base_dir \in ProfileBaseDirs, force \in BOOLEAN,
       reuse_credentials \in BOOLEAN, overwrite \in BOOLEAN, reuse_answer \in BOOLEAN,
       keygen_ok \in BOOLEAN, mkdir_ok \in BOOLEAN :
        LET r == create_profile(name, email, username, provider, base_dir, force,
                                reuse_credentials, overwrite, reuse_answer, FALSE,
                                keygen_ok, FALSE, mkdir_ok)
        IN r.raised # NoError
           => /\ Described(r.profiles, r.heap) = Described(profiles, heap)
              /\ RegistryOf(r) = RegistryOf(Current)
              /\ r.store = store

---------------------------------------------------------------------------

\* a key file or a line of ~/.ssh/config that the result of a command no longer has
Lost(r) ==
    \/ DOMAIN ssh_files \ DOMAIN r.ssh_files # {}
    \/ /\ SshConfigPath \in DOMAIN ssh_files \cap DOMAIN r.ssh_files
       /\ r.ssh_files[SshConfigPath].content # ssh_files[SshConfigPath].content

\* C29: in setup --clean-setup without --no-backup, whatever the cleanup removed
\* was removed after backup_configs had stored the files as they were; when the
\* backup fails, or --non-interactive is given, the SSH files, the profile map,
\* the registry and the store stay as they were and no profile is created
C29_CleanOnlyAfterBackup ==
    \A provider \in Providers, force \in BOOLEAN, non_interactive \in BOOLEAN,
       proceed \in BOOLEAN, backup_ok \in BOOLEAN, keygen_ok \in BOOLEAN :
        \A overwrite \in OverwriteAnswers("p1", force),
           reuse_answer \in ReuseAnswers("a@x.io", "u1", TRUE) :
            LET r == setup("p1", "a@x.io", "u1", provider, "/ws", force, non_interactive,
                           FALSE, TRUE, proceed, backup_ok, overwrite, reuse_answer,
                           FALSE, keygen_ok, FALSE, TRUE)
            IN /\ Lost(r) => backup_configs \in r.backups.dirs
               /\ (~backup_ok \/ non_interactive) =>
                    /\ r.raised # NoError \/ ~proceed
                    /\ r.ssh_files = ssh_files
                    /\ r.profiles = profiles
                    /\ r.heap = heap
                    /\ r.credentials = credentials
                    /\ r.store = store
                    /\ ~r.created

\* a setup --clean-setup has made its backup, cleaned and created a profile, and
\* a second one whose backup fails finds a Host block it would have removed
C29_Witness ==
    /\ backups.dirs # {}
    /\ HasProfile(profiles, "p1")
    /\ \E provider \in Providers :
        /\ clean_provider_configs(ssh_files, provider) # ssh_files
        /\ setup("p1", "a@x.io", "u1", provider, "/ws", TRUE, FALSE, FALSE, TRUE, TRUE,
                 FALSE, FALSE, FALSE, FALSE, TRUE, FALSE, TRUE).raised # NoError

---------------------------------------------------------------------------

\* C30: for every backup directory the backup step of setup has made, restore
\* --type git returns ~/.gitconfig to the content the backup holds and restore
\* --type ssh returns ~/.ssh/config to the content the backup holds
C30_SetupBackupRestorable ==
    \A backup \in backups.dirs :
        /\ backup.gitconfig.exists =>
              /\ restore(backup, "git").raised = NoError
              /\ restore(backup, "git").gitconfig = backup.gitconfig
        /\ SshConfigPath \in DOMAIN backup.ssh =>
              /\ restore(backup, "ssh").raised = NoError
              /\ SshConfigPath \in DOMAIN restore(backup, "ssh").ssh_files
              /\ restore(backup, "ssh").ssh_files[SshConfigPath].content
                    = backup.ssh[SshConfigPath].content

====
